---- MODULE Spec2Model ----
(***************************************************************************)
(* Placement core of history_cartopy: the PlacementManager store, the      *)
(* bounding-box intersection test, overlap queries and the two greedy      *)
(* resolution algorithms (labels, campaign arrows).                        *)
(*                                                                         *)
(* Lengths are integers in map units.  Ids are tuples of tokens so that    *)
(* the f-strings of the source (f"{id}_seg{n}", f"temp_{id}") can be built:*)
(* "a" is <<"a">>, "a_seg0" is <<"a", "_seg", 0>>.  A group of None or ""  *)
(* (both falsy in Python) is the empty string.                             *)
(***************************************************************************)
EXTENDS Integers, Sequences, FiniteSets, TLC

VARIABLES
    elements,          \* PlacementManager.elements: insertion-ordered dict, a sequence of PlacementElement
    pc,                \* position of the caller: "idle", "greedy", "arrows", "done_greedy", "done_arrows"
    candidates,        \* the list handed to resolve_greedy / resolve_arrows (resolved_idx is written into it)
    order,             \* sorted_candidates, as indices into candidates
    k,                 \* number of candidates the running loop has processed
    resolved,          \* the dict the running call returns (insertion-ordered: sequence of [key, value])
    unresolved,        \* resolve_greedy's list of candidates committed with overlaps (indices)
    raised,            \* "" or the exception that ended the call
    elements0,         \* the store when the last call started
    hist,              \* the store as it stood just before each processed candidate
    probe,             \* the last manager operation called and its arguments
    ret,               \* the value it returned
    b1, b2,            \* the two boxes handed to _bbox_intersects
    radius,            \* AnchorCircle.radius
    attachments,       \* AnchorCircle.attachments: list of [type, preferred_angle, priority, index]
    _resolved,         \* AnchorCircle._resolved
    _angles            \* AnchorCircle._angles: dict from attachment index to angle

vars == <<elements, pc, candidates, order, k, resolved, unresolved, raised, elements0, hist,
          probe, ret, b1, b2, radius, attachments, _resolved, _angles>>

callVars == <<candidates, order, k, resolved, unresolved, raised, elements0, hist>>
queryVars == <<probe, ret>>
boxVars == <<b1, b2>>
managerVars == <<elements, pc, callVars>>
anchorVars == <<radius, attachments, _resolved, _angles>>

-----------------------------------------------------------------------------
(* Bounds of the model *)

MaxStore == 1      \* elements stored by add_dot before a resolution call starts
MaxCands == 2      \* candidates per resolve_greedy / resolve_arrows call
MaxPos == 2        \* position variants per candidate
MaxElems == 3      \* elements stored in the query specification
MaxCoord == 2      \* box coordinates 0..MaxCoord in the intersection specification

-----------------------------------------------------------------------------
(* Program constants *)

Dpp == 4                   \* PlacementManager.dpp: map units per point
LinewidthHalfPts == 5      \* linewidth_pts=2.5, counted in half points
SegmentLength == 10        \* segment_length=10
DotSizes == {5}                \* size_pts handed to add_dot
DotPriority == 100         \* add_dot's default priority
ArrowPriority == 55        \* PRIORITY['campaign_arrow']

NoGroup == ""

Truthy(g) == g # NoGroup

-----------------------------------------------------------------------------
(* The insertion-ordered dict self.elements *)

Range(s) == {s[i] : i \in 1..Len(s)}

Keys(els) == {els[i].id : i \in 1..Len(els)}

IndexOf(els, id) == CHOOSE i \in 1..Len(els) : els[i].id = id

\* self.elements[id] = element
Put(els, element) ==
    IF element.id \in Keys(els)
    THEN [els EXCEPT ![IndexOf(els, element.id)] = element]
    ELSE Append(els, element)

\* del self.elements[id]
Del(els, id) ==
    LET i == IndexOf(els, id)
    IN  SubSeq(els, 1, i - 1) \o SubSeq(els, i + 1, Len(els))

PlacementElement(id, type, bbox, priority, group) ==
    [id |-> id, type |-> type, bbox |-> bbox, priority |-> priority, group |-> group]

-----------------------------------------------------------------------------
(* Bounding boxes and overlap queries *)

\* mutant: boxes that only touch are not reported
bbox_intersects_strict(a, b) ==
    ~ (\/ a[3] <= b[1]
       \/ a[1] >= b[3]
       \/ a[4] <= b[2]
       \/ a[2] >= b[4])

_bbox_intersects(a, b) ==
    ~ (\/ a[3] < b[1]
       \/ a[1] > b[3]
       \/ a[4] < b[2]
       \/ a[2] > b[4])

\* mutant: two elements without a group count as one group
SameGroup_none_too(e, f) == e.group = f.group

SameGroup(e, f) == Truthy(e.group) /\ Truthy(f.group) /\ e.group = f.group

RECURSIVE would_overlap_from(_, _, _)
would_overlap_from(els, element, i) ==
    IF i > Len(els) THEN << >>
    ELSE IF SameGroup(element, els[i]) THEN would_overlap_from(els, element, i + 1)
    ELSE IF _bbox_intersects(element.bbox, els[i].bbox)
         THEN <<els[i]>> \o would_overlap_from(els, element, i + 1)
         ELSE would_overlap_from(els, element, i + 1)

\* mutant: only the element stored first is tested
would_overlap_first_stored(els, element) ==
    IF els # << >> /\ _bbox_intersects(element.bbox, els[1].bbox) /\ ~ SameGroup(element, els[1])
    THEN <<els[1]>> ELSE << >>

would_overlap(els, element) == would_overlap_from(els, element, 1)

\* mutant: remove reports success and leaves the store as it is
remove_nothing(els, id) == [elements |-> els, result |-> id \in Keys(els)]

\* remove(id): the store afterwards and the value returned
remove(els, id) ==
    IF id \in Keys(els)
    THEN [elements |-> Del(els, id), result |-> TRUE]
    ELSE [elements |-> els, result |-> FALSE]

\* the pairs (e1, e2) of the inner loop "for e2 in elements[i + 1:]"
RECURSIVE detect_overlaps_inner(_, _, _)
detect_overlaps_inner(els, i, j) ==
    IF j > Len(els) THEN << >>
    ELSE IF SameGroup(els[i], els[j]) THEN detect_overlaps_inner(els, i, j + 1)
    ELSE IF _bbox_intersects(els[i].bbox, els[j].bbox)
         THEN <<(<<els[i], els[j]>>)>> \o detect_overlaps_inner(els, i, j + 1)
         ELSE detect_overlaps_inner(els, i, j + 1)

RECURSIVE detect_overlaps_from(_, _)
detect_overlaps_from(els, i) ==
    IF i > Len(els) THEN << >>
    ELSE detect_overlaps_inner(els, i, i + 1) \o detect_overlaps_from(els, i + 1)

\* mutant: the outer loop stops after the first stored element
detect_overlaps_first_only(els) ==
    IF els = << >> THEN << >> ELSE detect_overlaps_inner(els, 1, 2)

detect_overlaps(els) == detect_overlaps_from(els, 1)

add_dot(els, id, coords, size_pts, priority, group) ==
    LET dot_size_deg == size_pts * Dpp
        bbox == << coords[1] - dot_size_deg \div 2,
                   coords[2] - dot_size_deg \div 2,
                   coords[1] + dot_size_deg \div 2,
                   coords[2] + dot_size_deg \div 2 >>
        element == PlacementElement(id, "dot", bbox, priority, group)
    IN  [elements |-> Put(els, element), result |-> element]

-----------------------------------------------------------------------------
(* Arrow paths cut into segment elements *)

Min2(x, y) == IF x < y THEN x ELSE y

MinOf(S) == CHOOSE m \in S : \A x \in S : m <= x
MaxOf(S) == CHOOSE m \in S : \A x \in S : m >= x

\* Python's path[lo:hi] for 0 <= lo, hi <= len(path)
Slice(path, lo, hi) == SubSeq(path, lo + 1, hi)

SegId(id, seg_start) == id \o <<"_seg", seg_start>>
TempId(id) == <<"temp_">> \o id

RECURSIVE add_campaign_arrow_from(_, _, _, _, _, _, _)
add_campaign_arrow_from(els, id, path, padding, priority, group, seg_start) ==
    LET num_points == Len(path)
        seg_end == Min2(seg_start + SegmentLength + 1, num_points)
        segment == Slice(path, seg_start, seg_end)
        lons == {segment[i][1] : i \in 1..Len(segment)}
        lats == {segment[i][2] : i \in 1..Len(segment)}
        bbox == << MinOf(lons) - padding, MinOf(lats) - padding,
                   MaxOf(lons) + padding, MaxOf(lats) + padding >>
        element == PlacementElement(SegId(id, seg_start), "campaign_arrow", bbox, priority, group)
    IN  IF seg_start >= num_points - 1 THEN [elements |-> els, result |-> << >>]
        ELSE IF Len(segment) < 2
             THEN add_campaign_arrow_from(els, id, path, padding, priority, group,
                                          seg_start + SegmentLength)
             ELSE LET rest == add_campaign_arrow_from(Put(els, element), id, path, padding,
                                                      priority, group, seg_start + SegmentLength)
                  IN  [elements |-> rest.elements, result |-> <<element>> \o rest.result]

\* mutant: the padding is half the line width
add_campaign_arrow_half_width(els, id, path, linewidth_half_pts, priority, group) ==
    IF Len(path) < 2 THEN [elements |-> els, result |-> << >>]
    ELSE add_campaign_arrow_from(els, id, path, (linewidth_half_pts * Dpp) \div 4,
                                 priority, group, 0)

add_campaign_arrow(els, id, path, linewidth_half_pts, priority, group) ==
    IF Len(path) < 2 THEN [elements |-> els, result |-> << >>]
    ELSE add_campaign_arrow_from(els, id, path, (linewidth_half_pts * Dpp) \div 2,
                                 priority, group, 0)

RECURSIVE create_arrow_segments_temp_from(_, _, _, _)
create_arrow_segments_temp_from(id, path, padding, seg_start) ==
    LET num_points == Len(path)
        seg_end == Min2(seg_start + SegmentLength + 1, num_points)
        segment == Slice(path, seg_start, seg_end)
        lons == {segment[i][1] : i \in 1..Len(segment)}
        lats == {segment[i][2] : i \in 1..Len(segment)}
        bbox == << MinOf(lons) - padding, MinOf(lats) - padding,
                   MaxOf(lons) + padding, MaxOf(lats) + padding >>
        element == PlacementElement(SegId(id, seg_start), "campaign_arrow", bbox,
                                    ArrowPriority, NoGroup)
    IN  IF seg_start >= num_points - 1 THEN << >>
        ELSE IF Len(segment) < 2
             THEN create_arrow_segments_temp_from(id, path, padding, seg_start + SegmentLength)
             ELSE <<element>> \o
                  create_arrow_segments_temp_from(id, path, padding, seg_start + SegmentLength)

\* mutant: the probe segments are stored, as add_campaign_arrow stores them
create_arrow_segments_temp_stored(els, id, path, linewidth_half_pts) ==
    add_campaign_arrow(els, id, path, linewidth_half_pts, ArrowPriority, NoGroup)

\* the store is handed through: the helper leaves it as it is
_create_arrow_segments_temp(els, id, path, linewidth_half_pts) ==
    IF Len(path) < 2 THEN [elements |-> els, result |-> << >>]
    ELSE [elements |-> els,
          result |-> create_arrow_segments_temp_from(id, path,
                         (linewidth_half_pts * Dpp) \div 2, 0)]

-----------------------------------------------------------------------------
(* resolve_greedy *)

LabelCandidate(id, priority, group, positions) ==
    [id |-> id, priority |-> priority, group |-> group, positions |-> positions,
     resolved_idx |-> -1]

\* sorted(candidates, key=lambda c: -c.priority), as indices into candidates:
\* insert index i behind every index whose key is not larger (stable)
RECURSIVE insert_sorted(_, _, _)
insert_sorted(cands, sorted, i) ==
    IF sorted = << >> THEN <<i>>
    ELSE IF -cands[Head(sorted)].priority <= -cands[i].priority
         THEN <<Head(sorted)>> \o insert_sorted(cands, Tail(sorted), i)
         ELSE <<i>> \o sorted

RECURSIVE sorted_upto(_, _)
sorted_upto(cands, n) ==
    IF n = 0 THEN << >> ELSE insert_sorted(cands, sorted_upto(cands, n - 1), n)

\* mutant: the candidates are processed in input order, unsorted
sorted_candidates_unsorted(cands) == [i \in 1..Len(cands) |-> i]

sorted_candidates(cands) == sorted_upto(cands, Len(cands))

\* dict assignment d[key] = value on an insertion-ordered dict
PutKV(d, key, value) ==
    IF \E i \in 1..Len(d) : d[i].key = key
    THEN [d EXCEPT ![CHOOSE i \in 1..Len(d) : d[i].key = key] = [key |-> key, value |-> value]]
    ELSE Append(d, [key |-> key, value |-> value])

\* mutant: the scan prefers the last position that overlaps nothing stored
RECURSIVE last_free_position(_, _, _)
last_free_position(els, positions, idx) ==
    IF idx >= Len(positions) THEN -1
    ELSE LET later == last_free_position(els, positions, idx + 1)
         IN  IF later >= 0 THEN later
             ELSE IF would_overlap(els, positions[idx + 1]) = << >> THEN idx
             ELSE -1

\* the scan of candidate.positions: the 0-based index of the first position
\* that overlaps nothing stored, or -1
RECURSIVE first_free_position(_, _, _)
first_free_position(els, positions, idx) ==
    IF idx >= Len(positions) THEN -1
    ELSE IF would_overlap(els, positions[idx + 1]) = << >> THEN idx
    ELSE first_free_position(els, positions, idx + 1)

\* mutant: the fallback commits the last variant instead of the first
resolve_greedy_candidate_last(els, candidate) ==
    LET idx == first_free_position(els, candidate.positions, 0)
        n == Len(candidate.positions)
    IN  IF idx >= 0
        THEN [elements |-> Put(els, candidate.positions[idx + 1]),
              resolved_idx |-> idx, placed |-> TRUE, raised |-> "",
              position |-> <<candidate.positions[idx + 1]>>]
        ELSE IF n = 0
        THEN [elements |-> els,
              resolved_idx |-> candidate.resolved_idx, placed |-> FALSE,
              raised |-> "IndexError", position |-> << >>]
        ELSE [elements |-> Put(els, candidate.positions[n]),
              resolved_idx |-> n - 1, placed |-> FALSE, raised |-> "",
              position |-> <<candidate.positions[n]>>]

\* mutant: a variant committed by fallback is reported but not stored
resolve_greedy_candidate_fallback_unstored(els, candidate) ==
    LET idx == first_free_position(els, candidate.positions, 0)
    IN  IF idx >= 0
        THEN [elements |-> Put(els, candidate.positions[idx + 1]),
              resolved_idx |-> idx, placed |-> TRUE, raised |-> "",
              position |-> <<candidate.positions[idx + 1]>>]
        ELSE IF Len(candidate.positions) = 0
        THEN [elements |-> els,
              resolved_idx |-> candidate.resolved_idx, placed |-> FALSE,
              raised |-> "IndexError", position |-> << >>]
        ELSE [elements |-> els,
              resolved_idx |-> 0, placed |-> FALSE, raised |-> "",
              position |-> <<candidate.positions[1]>>]

\* one pass of the loop over sorted_candidates
resolve_greedy_candidate(els, candidate) ==
    LET idx == first_free_position(els, candidate.positions, 0)
    IN  IF idx >= 0
        THEN [elements |-> Put(els, candidate.positions[idx + 1]),
              resolved_idx |-> idx, placed |-> TRUE, raised |-> "",
              position |-> <<candidate.positions[idx + 1]>>]
        ELSE IF Len(candidate.positions) = 0
        THEN [elements |-> els,
              resolved_idx |-> candidate.resolved_idx, placed |-> FALSE,
              raised |-> "IndexError", position |-> << >>]
        ELSE [elements |-> Put(els, candidate.positions[1]),
              resolved_idx |-> 0, placed |-> FALSE, raised |-> "",
              position |-> <<candidate.positions[1]>>]

\* the loop of resolve_greedy over a given processing order, from its i-th
\* entry on: the store, the candidates and the exception it ends with
RECURSIVE resolve_greedy_in_order(_, _, _, _)
resolve_greedy_in_order(els, cands, ord, i) ==
    IF i > Len(ord) THEN [elements |-> els, candidates |-> cands, raised |-> ""]
    ELSE LET r == resolve_greedy_candidate(els, cands[ord[i]])
             updated == [cands EXCEPT ![ord[i]].resolved_idx = r.resolved_idx]
         IN  IF r.raised # ""
             THEN [elements |-> r.elements, candidates |-> updated, raised |-> r.raised]
             ELSE resolve_greedy_in_order(r.elements, updated, ord, i + 1)

\* resolve_greedy as a whole
resolve_greedy(els, cands) ==
    resolve_greedy_in_order(els, cands, sorted_candidates(cands), 1)

-----------------------------------------------------------------------------
(* resolve_arrows *)

ArrowCandidate(id, priority, group, variants) ==
    [id |-> id, priority |-> priority, group |-> group, variants |-> variants,
     resolved_idx |-> -1]

\* mutant: only the first temporary segment is tested
has_overlap_first_segment(els, temp_elements) ==
    temp_elements # << >> /\ would_overlap(els, temp_elements[1]) # << >>

\* whether some temporary segment overlaps a stored element
has_overlap(els, temp_elements) ==
    \E i \in 1..Len(temp_elements) : would_overlap(els, temp_elements[i]) # << >>

\* the scan of candidate.variants: the 0-based index of the first variant with
\* no overlapping segment, or -1, and the store after the probes
RECURSIVE first_free_variant(_, _, _)
first_free_variant(els, candidate, idx) ==
    IF idx >= Len(candidate.variants) THEN [elements |-> els, idx |-> -1]
    ELSE LET temp == _create_arrow_segments_temp(els, TempId(candidate.id),
                         candidate.variants[idx + 1].path, LinewidthHalfPts)
         IN  IF ~ has_overlap(temp.elements, temp.result)
             THEN [elements |-> temp.elements, idx |-> idx]
             ELSE first_free_variant(temp.elements, candidate, idx + 1)

\* one pass of the loop over arrow_candidates
resolve_arrows_candidate(els, candidate) ==
    LET scan == first_free_variant(els, candidate, 0)
        n == Len(candidate.variants)
    IN  IF scan.idx >= 0
        THEN [elements |-> add_campaign_arrow(scan.elements, candidate.id,
                               candidate.variants[scan.idx + 1].path, LinewidthHalfPts,
                               candidate.priority, candidate.group).elements,
              resolved_idx |-> scan.idx, placed |-> TRUE, raised |-> ""]
        ELSE IF n = 0
        THEN [elements |-> scan.elements, resolved_idx |-> n - 1, placed |-> FALSE,
              raised |-> "IndexError"]
        ELSE [elements |-> add_campaign_arrow(scan.elements, candidate.id,
                               candidate.variants[n].path, LinewidthHalfPts,
                               candidate.priority, candidate.group).elements,
              resolved_idx |-> n - 1, placed |-> FALSE, raised |-> ""]

-----------------------------------------------------------------------------
(* Inputs *)

Ids == {<<"a">>, <<"b">>}
DotIds == {<<"a">>, <<"c">>}
StoreIds == {<<"a">>, <<"b">>, <<"c">>}
Groups == {NoGroup, "g", "h"}
LabelGroups == {NoGroup, "g"}
ArrowGroups == {"g", "h"}
Priorities == {1, 2}
DotCoords == {<<0, 0>>, <<40, 0>>}
\* with the dot between them, whose box touches both of the others
StoreDotCoords == DotCoords \cup {<<20, 0>>}

\* dots: (0,0) covers [-10,10]x[-10,10], (40,0) covers [30,50]x[-10,10]
PosBoxes ==
    { <<0, 0, 10, 10>>,       \* inside the dot at (0,0), clear of the dot at (40,0)
      <<10, 0, 30, 10>>,      \* touches both dots and the box above
      <<15, 20, 25, 30>> }    \* above everything

PathPoint == <<<<0, 60>>>>
PathNear == <<<<0, 0>>, <<20, 0>>>>
PathFar == <<<<0, 60>>, <<20, 60>>>>
PathLong == [i \in 1..(SegmentLength + 2) |->
                IF i <= SegmentLength + 1 THEN <<0, 20>> ELSE <<40, 20>>]
Paths == {PathPoint, PathNear, PathFar, PathLong}

SeqsUpTo(S, n) == UNION {[1..m -> S] : m \in 0..n}

LabelCandidates ==
    { LabelCandidate(id, p, g,
          [i \in 1..Len(boxes) |-> PlacementElement(id, "label", boxes[i], p, g)]) :
      id \in Ids, p \in Priorities, g \in LabelGroups, boxes \in SeqsUpTo(PosBoxes, MaxPos) }

ArrowCandidates ==
    { ArrowCandidate(id, ArrowPriority, g, [i \in 1..Len(paths) |-> [path |-> paths[i]]]) :
      id \in Ids, g \in ArrowGroups, paths \in SeqsUpTo(Paths, MaxPos) }

DistinctIds(cands) == \A i, j \in 1..Len(cands) : i # j => cands[i].id # cands[j].id

LabelCandidateLists == SeqsUpTo(LabelCandidates, MaxCands)

ArrowCandidateLists == {cands \in SeqsUpTo(ArrowCandidates, MaxCands) : DistinctIds(cands)}

Probes == {PlacementElement(<<"a">>, "label", box, 1, g) : box \in PosBoxes, g \in Groups}

Coords == 0..MaxCoord
AnyBoxes == Coords \X Coords \X Coords \X Coords

\* no anchor circle has been constructed
NoCircle ==
    /\ radius = 0
    /\ attachments = << >>
    /\ _resolved = FALSE
    /\ _angles = << >>

-----------------------------------------------------------------------------
(* The placement manager: elements are added, then one resolution call runs *)

Init ==
    /\ elements = << >>
    /\ pc = "idle"
    /\ candidates = << >>
    /\ order = << >>
    /\ k = 0
    /\ resolved = << >>
    /\ unresolved = << >>
    /\ raised = ""
    /\ elements0 = << >>
    /\ hist = << >>
    /\ probe = << >>
    /\ ret = << >>
    /\ b1 = << >>
    /\ b2 = << >>
    /\ NoCircle

AddDot(id, coords, group) ==
    /\ pc = "idle"
    /\ \E size_pts \in DotSizes :
           LET r == add_dot(elements, id, coords, size_pts, DotPriority, group)
           IN  /\ elements' = r.elements
               /\ ret' = r.result
    /\ probe' = <<"add_dot", id, coords, group>>
    /\ elements0' = elements
    /\ UNCHANGED <<pc, candidates, order, k, resolved, unresolved, raised, hist, boxVars, anchorVars>>

\* resolve_greedy: entry, sort
ResolveGreedyCall(cands) ==
    /\ pc = "idle"
    /\ pc' = "greedy"
    /\ candidates' = cands
    /\ order' = sorted_candidates(cands)
    /\ k' = 0
    /\ resolved' = << >>
    /\ unresolved' = << >>
    /\ raised' = ""
    /\ elements0' = elements
    /\ hist' = << >>
    /\ probe' = <<"resolve_greedy">>
    /\ ret' = << >>
    /\ UNCHANGED <<elements, boxVars, anchorVars>>

\* resolve_greedy: one pass of the loop over sorted_candidates
ResolveGreedyLoop ==
    /\ pc = "greedy"
    /\ k < Len(order)
    /\ LET c == order[k + 1]
           candidate == candidates[c]
           r == resolve_greedy_candidate(elements, candidate)
       IN  /\ hist' = Append(hist, [elements |-> elements, candidate |-> c, placed |-> r.placed])
           /\ elements' = r.elements
           /\ candidates' = [candidates EXCEPT ![c].resolved_idx = r.resolved_idx]
           /\ raised' = r.raised
           /\ IF r.raised # ""
              THEN /\ pc' = "done_greedy"
                   /\ UNCHANGED <<resolved, unresolved>>
              ELSE /\ pc' = "greedy"
                   /\ resolved' = PutKV(resolved, candidate.id, r.position[1])
                   /\ unresolved' = IF r.placed THEN unresolved ELSE Append(unresolved, c)
    /\ k' = k + 1
    /\ UNCHANGED <<order, elements0, queryVars, boxVars, anchorVars>>

\* resolve_greedy: return resolved
ResolveGreedyReturn ==
    /\ pc = "greedy"
    /\ k = Len(order)
    /\ pc' = "done_greedy"
    /\ UNCHANGED <<elements, callVars, queryVars, boxVars, anchorVars>>

\* resolve_arrows: entry
ResolveArrowsCall(cands) ==
    /\ pc = "idle"
    /\ pc' = "arrows"
    /\ candidates' = cands
    /\ order' = [i \in 1..Len(cands) |-> i]
    /\ k' = 0
    /\ resolved' = << >>
    /\ unresolved' = << >>
    /\ raised' = ""
    /\ elements0' = elements
    /\ hist' = << >>
    /\ probe' = <<"resolve_arrows">>
    /\ ret' = << >>
    /\ UNCHANGED <<elements, boxVars, anchorVars>>

\* resolve_arrows: one pass of the loop over arrow_candidates
ResolveArrowsLoop ==
    /\ pc = "arrows"
    /\ k < Len(order)
    /\ LET c == order[k + 1]
           candidate == candidates[c]
           r == resolve_arrows_candidate(elements, candidate)
       IN  /\ hist' = Append(hist, [elements |-> elements, candidate |-> c, placed |-> r.placed])
           /\ elements' = r.elements
           /\ candidates' = [candidates EXCEPT ![c].resolved_idx = r.resolved_idx]
           /\ raised' = r.raised
           /\ IF r.raised # ""
              THEN /\ pc' = "done_arrows"
                   /\ UNCHANGED resolved
              ELSE /\ pc' = "arrows"
                   /\ resolved' = PutKV(resolved, candidate.id, c)
    /\ k' = k + 1
    /\ UNCHANGED <<order, unresolved, elements0, queryVars, boxVars, anchorVars>>

\* resolve_arrows: return resolved
ResolveArrowsReturn ==
    /\ pc = "arrows"
    /\ k = Len(order)
    /\ pc' = "done_arrows"
    /\ UNCHANGED <<elements, callVars, queryVars, boxVars, anchorVars>>

Next ==
    \/ /\ pc = "idle"
       /\ Len(elements) < MaxStore
       /\ \E id \in DotIds, coords \in DotCoords, group \in Groups : AddDot(id, coords, group)
    \/ /\ pc = "idle"
       /\ \E cands \in LabelCandidateLists : ResolveGreedyCall(cands)
    \/ ResolveGreedyLoop
    \/ ResolveGreedyReturn
    \/ /\ pc = "idle"
       /\ \E cands \in ArrowCandidateLists : ResolveArrowsCall(cands)
    \/ ResolveArrowsLoop
    \/ ResolveArrowsReturn

Spec == Init /\ [][Next]_vars

-----------------------------------------------------------------------------
(* The store and its queries: add_dot, remove, would_overlap, detect_overlaps *)

WouldOverlapCall(element) ==
    /\ pc = "idle"
    /\ probe' = <<"would_overlap", element>>
    /\ ret' = would_overlap(elements, element)
    /\ elements0' = elements
    /\ UNCHANGED <<elements, pc, candidates, order, k, resolved, unresolved, raised, hist, boxVars, anchorVars>>

DetectOverlapsCall ==
    /\ pc = "idle"
    /\ probe' = <<"detect_overlaps">>
    /\ ret' = detect_overlaps(elements)
    /\ elements0' = elements
    /\ UNCHANGED <<elements, pc, candidates, order, k, resolved, unresolved, raised, hist, boxVars, anchorVars>>

RemoveCall(id) ==
    /\ pc = "idle"
    /\ LET r == remove(elements, id)
       IN  /\ elements' = r.elements
           /\ ret' = r.result
    /\ probe' = <<"remove", id>>
    /\ elements0' = elements
    /\ UNCHANGED <<pc, candidates, order, k, resolved, unresolved, raised, hist, boxVars, anchorVars>>

NextStore ==
    \/ /\ Len(elements) < MaxElems
       /\ \E id \in StoreIds, coords \in StoreDotCoords, group \in Groups :
              AddDot(id, coords, group)
    \/ \E id \in StoreIds : RemoveCall(id)
    \/ \E element \in Probes : WouldOverlapCall(element)
    \/ DetectOverlapsCall

SpecStore == Init /\ [][NextStore]_vars

-----------------------------------------------------------------------------
(* The intersection test applied to every pair of 4-tuples *)

InitBox ==
    /\ elements = << >>
    /\ pc = "idle"
    /\ candidates = << >>
    /\ order = << >>
    /\ k = 0
    /\ resolved = << >>
    /\ unresolved = << >>
    /\ raised = ""
    /\ elements0 = << >>
    /\ hist = << >>
    /\ probe = << >>
    /\ ret = << >>
    /\ b1 \in AnyBoxes
    /\ b2 \in AnyBoxes
    /\ NoCircle

BboxIntersectsCall ==
    /\ pc = "idle"
    /\ pc' = "query"
    /\ probe' = <<"_bbox_intersects", b1, b2>>
    /\ ret' = _bbox_intersects(b1, b2)
    /\ UNCHANGED <<elements, callVars, boxVars, anchorVars>>

NextBox == BboxIntersectsCall

SpecBox == InitBox /\ [][NextBox]_vars

-----------------------------------------------------------------------------
(* anchor.py: the anchor circle.  Angles are whole degrees; 360 / n is     *)
(* exact for the numbers of attachments of the model (n divides 360).      *)

MaxAttach == 4     \* attachments registered on one circle
MaxSlotSteps == 6  \* passes through the slot-advancing loop that are followed
MaxPairCands == 2  \* city candidates and event candidates handed to detect_and_pair
MaxPathLen == 23   \* points of a path handed to the arrow segmentation
MaxWaypoints == 3  \* waypoints handed to _get_multistop_geometry
MaxSamples == 4    \* num_samples handed to _get_multistop_geometry
MaxCampaigns == 1  \* campaigns of the manifest whose labels are collected

\* preferred_angle=None: a value that is no angle
None == -1

\* DEFAULT_ANGLES.get(attachment_type, 45)
DEFAULT_ANGLES(attachment_type) ==
    IF attachment_type = "icon" THEN 0
    ELSE IF attachment_type = "label" THEN 135
    ELSE 45

\* CITY_LEVELS.get(city_level, CITY_LEVELS[2])['anchor_radius']
anchor_radius(city_level) ==
    IF city_level = 1 THEN 8
    ELSE IF city_level = 3 THEN 5
    ELSE IF city_level = 4 THEN 4
    ELSE 6

\* 'campaign' in a['type'], for the type names of the model
CampaignTypes == {"campaign_in", "campaign_out"}
is_campaign(a) == a.type \in CampaignTypes

\* a Python dict with integer keys: d[key] = value and d.get(key, default)
SetKey(d, key, value) == [x \in (DOMAIN d) \cup {key} |-> IF x = key THEN value ELSE d[x]]
GetKey(d, key, default) == IF key \in DOMAIN d THEN d[key] ELSE default

\* add_attachment: the list afterwards, the flag afterwards, the index returned
add_attachment(atts, attachment_type, preferred_angle, priority) ==
    LET angle == IF preferred_angle = None THEN DEFAULT_ANGLES(attachment_type)
                 ELSE preferred_angle
        idx == Len(atts)
    IN  [attachments |-> Append(atts, [type |-> attachment_type, preferred_angle |-> angle,
                                       priority |-> priority, index |-> idx]),
         _resolved |-> FALSE,
         result |-> idx]

\* mutant: the attachments stay in registration order
sorted_items_unsorted(atts) == atts

\* sorted(self.attachments, key=lambda x: -x['priority'])
sorted_items(atts) == [i \in 1..Len(atts) |-> atts[sorted_candidates(atts)[i]]]

\* mutant: a quarter turn
opposite_quarter(first_angle) == (first_angle + 90) % 360

\* (first_angle + 180) % 360
opposite(first_angle) == (first_angle + 180) % 360

\* mutant: the type's default angle instead of the preferred angle
first_angle_default(items) == DEFAULT_ANGLES(items[1].type)

\* sorted_items[0]['preferred_angle']
first_angle(items) == items[1].preferred_angle

\* Python's round(num / den) for num >= 0, den > 0: ties go to the even integer
round_half_even(num, den) ==
    LET q == num \div den
        r == num % den
    IN  IF 2 * r < den THEN q
        ELSE IF 2 * r > den THEN q + 1
        ELSE IF q % 2 = 0 THEN q ELSE q + 1

slot_size(n) == 360 \div n

\* mutant: the angle is snapped down to a multiple of the slot size
snap_down(angle, n) == (angle \div slot_size(n)) * slot_size(n)

\* round(angle / slot_size) * slot_size
snap(angle, n) == round_half_even(angle, slot_size(n)) * slot_size(n)

\* mutant: the loop advances by two slots
advance_two_slots(snapped, n) == (snapped + 2 * slot_size(n)) % 360

\* (snapped + slot_size) % 360
advance(snapped, n) == (snapped + slot_size(n)) % 360

\* while snapped in used_angles: snapped = advance(snapped); the angle and the
\* number of passes through the body, followed for MaxSlotSteps passes
RECURSIVE slot_loop(_, _, _, _)
slot_loop(snapped, used_angles, n, steps) ==
    IF snapped \in used_angles /\ steps < MaxSlotSteps
    THEN slot_loop(advance(snapped, n), used_angles, n, steps + 1)
    ELSE [snapped |-> snapped, steps |-> steps, exited |-> snapped \notin used_angles]

next_unused(snapped, used_angles, n) == slot_loop(snapped, used_angles, n, 0).snapped

\* for c in campaigns: the dict and used_angles afterwards
RECURSIVE assign_campaigns(_, _, _, _, _)
assign_campaigns(campaigns, i, angles, used_angles, n) ==
    IF i > Len(campaigns) THEN [angles |-> angles, used_angles |-> used_angles]
    ELSE LET snapped == next_unused(snap(campaigns[i].preferred_angle, n), used_angles, n)
         IN  assign_campaigns(campaigns, i + 1, SetKey(angles, campaigns[i].index, snapped),
                              used_angles \cup {snapped}, n)

\* sorted(S) of a set of numbers
RECURSIVE sorted_set(_)
sorted_set(S) == IF S = {} THEN << >> ELSE <<MinOf(S)>> \o sorted_set(S \ {MinOf(S)})

\* max() of an empty set raises ValueError
ValueError == -2

\* mutant: the last slot is missing
all_slots_but_last(n) == {i * slot_size(n) : i \in 0..(n - 2)}

\* set(i * (360 / n) for i in range(n))
all_slots(n) == {i * slot_size(n) : i \in 0..(n - 1)}

\* for i, item in enumerate(others): i counts from 1 here
RECURSIVE assign_others(_, _, _, _, _)
assign_others(others, i, angles, free_slots, used_angles) ==
    IF i > Len(others) THEN angles
    ELSE assign_others(others, i + 1,
             SetKey(angles, others[i].index,
                    IF i <= Len(free_slots) THEN free_slots[i]
                    ELSE IF used_angles = {} THEN ValueError
                    ELSE (MaxOf(used_angles) + 30) % 360),
             free_slots, used_angles)

\* resolve(): the dict _angles afterwards
resolve(atts, angles) ==
    LET n == Len(atts)
    IN  IF n = 0 THEN angles
        ELSE IF n = 1 THEN SetKey(angles, 0, atts[1].preferred_angle)
        ELSE IF n = 2
        THEN LET items == sorted_items(atts)
             IN  SetKey(SetKey(angles, items[1].index, first_angle(items)),
                        items[2].index, opposite(first_angle(items)))
        ELSE LET campaigns == SelectSeq(atts, is_campaign)
                 others == SelectSeq(atts, LAMBDA a : ~ is_campaign(a))
                 assigned == assign_campaigns(campaigns, 1, angles, {}, n)
                 free_slots == sorted_set(all_slots(n) \ assigned.used_angles)
             IN  assign_others(others, 1, assigned.angles, free_slots, assigned.used_angles)

\* mutant: the stored angle is returned without resolving
get_angle_stale(atts, flag, angles, attachment_index) ==
    [_angles |-> angles, _resolved |-> flag, result |-> GetKey(angles, attachment_index, 0)]

\* get_angle: the dict and the flag afterwards, the angle returned
get_angle(atts, flag, angles, attachment_index) ==
    LET now == IF flag THEN angles ELSE resolve(atts, angles)
    IN  [_angles |-> now, _resolved |-> TRUE, result |-> GetKey(now, attachment_index, 0)]

\* get_offset: the offset returned is (r cos t, r sin t); it is kept in polar
\* form, r = radius and t = 90 - angle_deg in degrees
get_offset(r, atts, flag, angles, attachment_index) ==
    LET now == IF flag THEN angles ELSE resolve(atts, angles)
    IN  [_angles |-> now, _resolved |-> TRUE,
         result |-> [r |-> r, t |-> 90 - GetKey(now, attachment_index, 0)]]

AttachmentTypes == {"label", "icon", "campaign_in"}
PreferredAngles == {None, 315}
AttachmentPriorities == {0, 1}
CityLevels == {1}

InitAnchor ==
    /\ elements = << >>
    /\ pc = "idle"
    /\ candidates = << >>
    /\ order = << >>
    /\ k = 0
    /\ resolved = << >>
    /\ unresolved = << >>
    /\ raised = ""
    /\ elements0 = << >>
    /\ hist = << >>
    /\ probe = << >>
    /\ ret = << >>
    /\ b1 = << >>
    /\ b2 = << >>
    /\ radius \in {anchor_radius(city_level) : city_level \in CityLevels}
    /\ attachments = << >>
    /\ _resolved = FALSE
    /\ _angles = << >>

AddAttachmentCall(attachment_type, preferred_angle, priority) ==
    /\ Len(attachments) < MaxAttach
    /\ LET r == add_attachment(attachments, attachment_type, preferred_angle, priority)
       IN  /\ attachments' = r.attachments
           /\ _resolved' = r._resolved
           /\ ret' = r.result
    /\ probe' = <<"add_attachment", attachment_type, preferred_angle, priority>>
    /\ UNCHANGED <<managerVars, boxVars, radius, _angles>>

ResolveCall ==
    /\ _angles' = resolve(attachments, _angles)
    /\ _resolved' = TRUE
    /\ probe' = <<"resolve">>
    /\ ret' = None
    /\ UNCHANGED <<managerVars, boxVars, radius, attachments>>

GetAngleCall(attachment_index) ==
    /\ LET r == get_angle(attachments, _resolved, _angles, attachment_index)
       IN  /\ _angles' = r._angles
           /\ _resolved' = r._resolved
           /\ ret' = r.result
    /\ probe' = <<"get_angle", attachment_index>>
    /\ UNCHANGED <<managerVars, boxVars, radius, attachments>>

GetOffsetCall(attachment_index) ==
    /\ LET r == get_offset(radius, attachments, _resolved, _angles, attachment_index)
       IN  /\ _angles' = r._angles
           /\ _resolved' = r._resolved
           /\ ret' = r.result
    /\ probe' = <<"get_offset", attachment_index>>
    /\ UNCHANGED <<managerVars, boxVars, radius, attachments>>

NextAnchor ==
    \/ \E attachment_type \in AttachmentTypes, preferred_angle \in PreferredAngles,
          priority \in AttachmentPriorities :
           AddAttachmentCall(attachment_type, preferred_angle, priority)
    \/ ResolveCall
    \/ \E attachment_index \in 0..Len(attachments) : GetAngleCall(attachment_index)
    \/ \E attachment_index \in 0..Len(attachments) : GetOffsetCall(attachment_index)

SpecAnchor == InitAnchor /\ [][NextAnchor]_vars

-----------------------------------------------------------------------------
(* pairing.py: cooperative placement of a city label and an event label.   *)
(* Offsets are in thousandths of a point, cos 45 and sin 45 are 0.7071;    *)
(* the manager's scale dpp is in map units per point.  The subtext looked  *)
(* up in event_render_data is only handed on to add_label and does not     *)
(* enter the box add_label computes, so it is left out.  The arithmetic    *)
(* is exact: two boxes that touch exactly intersect.                       *)

\* a label element as add_label builds it
LabelElement(id, type, coords, offset, bbox, priority, text, group) ==
    [id |-> id, type |-> type, coords |-> coords, offset |-> offset, bbox |-> bbox,
     priority |-> priority, text |-> text, group |-> group]

\* a local variable: v is evaluated once and F applied to its value
With(v, F(_)) == CHOOSE r \in {F(x) : x \in {v}} : TRUE

\* add_label: the store afterwards and the element returned
add_label(els, dpp, id, coords, text, fontsize, x_offset_mpts, y_offset_mpts, priority,
          element_type, group) ==
    LET text_width_deg == (Len(text) * fontsize * 600 * dpp) \div 1000
        text_height_deg == (fontsize * 1200 * dpp) \div 1000
        x_offset_deg == (x_offset_mpts * dpp) \div 1000
        y_offset_deg == (y_offset_mpts * dpp) \div 1000
        center_x == coords[1] + x_offset_deg + text_width_deg \div 2
        center_y == coords[2] + y_offset_deg
        bbox == << center_x - text_width_deg \div 2, center_y - text_height_deg \div 2,
                   center_x + text_width_deg \div 2, center_y + text_height_deg \div 2 >>
        element == LabelElement(id, element_type, coords, <<x_offset_deg, y_offset_deg>>,
                                bbox, priority, text, group)
    IN  [elements |-> Put(els, element), result |-> element]

\* POSITION_PRIORITY, and for each name (cos, sin) of 90 - POSITION_ANGLES[name]
\* in ten-thousandths
POSITION_PRIORITY == <<"NE", "E", "NW", "W", "SE", "SW", "N", "S">>

Direction(pos_name) ==
    CASE pos_name = "NE" -> <<7071, 7071>>
      [] pos_name = "E"  -> <<10000, 0>>
      [] pos_name = "NW" -> <<-7071, 7071>>
      [] pos_name = "W"  -> <<-10000, 0>>
      [] pos_name = "SE" -> <<7071, -7071>>
      [] pos_name = "SW" -> <<-7071, -7071>>
      [] pos_name = "N"  -> <<0, 10000>>
      [] pos_name = "S"  -> <<0, -10000>>

\* get_candidate_offsets: (position_name, x_offset, y_offset) in priority order
get_candidate_offsets(radius_mpts, gap_mpts) ==
    [i \in 1..Len(POSITION_PRIORITY) |->
        LET total_radius == radius_mpts + gap_mpts
            d == Direction(POSITION_PRIORITY[i])
        IN  [pos_name |-> POSITION_PRIORITY[i],
             x_offset |-> (total_radius * d[1]) \div 10000,
             y_offset |-> (total_radius * d[2]) \div 10000]]

\* the positions of one distance tier: each is added under a temporary id,
\* renamed to the candidate's id and removed from the store again
RECURSIVE tier_positions(_, _, _, _, _, _, _, _, _, _, _, _, _, _)
tier_positions(els, dpp, id, coords, priority, group, prefix, tier_suffix, text, fontsize,
               type, offsets, i, positions) ==
    IF i > Len(offsets) THEN [elements |-> els, result |-> positions]
    ELSE With(add_label(els, dpp, prefix \o id \o <<"_", offsets[i].pos_name>> \o tier_suffix,
                        coords, text, fontsize, offsets[i].x_offset, offsets[i].y_offset,
                        priority, type, group),
              LAMBDA added :
                  With(remove(added.elements, added.result.id).elements,
                       LAMBDA cleaned :
                           tier_positions(cleaned, dpp, id, coords, priority, group, prefix,
                                          tier_suffix, text, fontsize, type, offsets, i + 1,
                                          Append(positions, [added.result EXCEPT !.id = id]))))

EVENT_ANCHOR_RADIUS == 12
EVENT_FONTSIZE == 9

\* distance_multipliers = [1.0, 1.3, 1.6], in tenths
EventTiers == <<10, 13, 16>>

\* _make_event_positions_3tier: the store afterwards and the 24 positions
RECURSIVE make_event_positions_3tier_from(_, _, _, _, _)
make_event_positions_3tier_from(els, dpp, event_cand, t, positions) ==
    IF t > Len(EventTiers) THEN [elements |-> els, result |-> positions]
    ELSE With(tier_positions(els, dpp, event_cand.id, event_cand.positions[1].coords,
                             event_cand.priority, event_cand.group,
                             <<"pair_evt_">>, <<"_t", EventTiers[t]>>,
                             event_cand.positions[1].text, EVENT_FONTSIZE, "event_label",
                             get_candidate_offsets(
                                 EVENT_ANCHOR_RADIUS * 1000,
                                 (EVENT_ANCHOR_RADIUS * 1000 * (EventTiers[t] - 10)) \div 10),
                             1, positions),
              LAMBDA tier :
                  make_event_positions_3tier_from(tier.elements, dpp, event_cand, t + 1,
                                                  tier.result))

_make_event_positions_3tier(els, dpp, event_cand) ==
    make_event_positions_3tier_from(els, dpp, event_cand, 1, << >>)

\* PairedLabelCandidate as detect_and_pair constructs it
PairedLabelCandidate(id, element_type, priority, group, positions, fallback_idx) ==
    [id |-> id, element_type |-> element_type, priority |-> priority, group |-> group,
     positions |-> positions, fallback_idx |-> fallback_idx]

\* f"paired_{city_cand.id}_{event_cand.id}"
PairedId(city_cand, event_cand) == <<"paired_">> \o city_cand.id \o <<"_">> \o event_cand.id

\* the two nested loops over city positions and event positions, flattened:
\* step p handles city index (p - 1) \div Le and event position (p - 1) % Le + 1
CityIdxOf(p, event_positions) == (p - 1) \div Len(event_positions)
EventPosOf(p, event_positions) == ((p - 1) % Len(event_positions)) + 1

\* mutant: the pairs whose two boxes do intersect are kept as well
kept_steps_all(city_positions, event_positions) ==
    [p \in 1..(Len(city_positions) * Len(event_positions)) |-> p]

\* the steps that get past "if pm._bbox_intersects(...): continue"
kept_steps(city_positions, event_positions) ==
    SelectSeq([p \in 1..(Len(city_positions) * Len(event_positions)) |-> p],
              LAMBDA p : ~ _bbox_intersects(
                               city_positions[CityIdxOf(p, event_positions) + 1].bbox,
                               event_positions[EventPosOf(p, event_positions)].bbox))

\* mutant: copy hands back the object it was given
copy_same_object(element) == [object |-> "same", value |-> element]

\* copy(element): a new object with the element's fields
copy(element) == [object |-> "new", value |-> element]

\* c.group = paired_group, for c = copy(city_elem) in the steps kept: the
\* objects of city_positions after the loop
city_positions_after(city_positions, event_positions, kept, paired_group) ==
    [i \in 1..Len(city_positions) |->
        IF /\ copy(city_positions[i]).object = "same"
           /\ \E n \in 1..Len(kept) : CityIdxOf(kept[n], event_positions) + 1 = i
        THEN [city_positions[i] EXCEPT !.group = paired_group]
        ELSE city_positions[i]]

\* mutant: fallback_idx is never set in the loop
build_paired_positions_no_fallback(city_positions, event_positions, paired_group) ==
    With(kept_steps(city_positions, event_positions),
         LAMBDA kept :
             [paired_positions |->
                  [i \in 1..Len(kept) |->
                      << [copy(city_positions[CityIdxOf(kept[i], event_positions) + 1]).value
                             EXCEPT !.group = paired_group],
                         [copy(event_positions[EventPosOf(kept[i], event_positions)]).value
                             EXCEPT !.group = paired_group] >>],
              city_positions |->
                  city_positions_after(city_positions, event_positions, kept, paired_group),
              fallback_idx |-> None])

\* paired_positions and fallback_idx (None while no kept pair has city_idx >= 8)
build_paired_positions(city_positions, event_positions, paired_group) ==
    With(kept_steps(city_positions, event_positions),
         LAMBDA kept :
             LET late == {i \in 1..Len(kept) : CityIdxOf(kept[i], event_positions) >= 8}
             IN  [paired_positions |->
                      [i \in 1..Len(kept) |->
                          << [copy(city_positions[CityIdxOf(kept[i], event_positions) + 1]).value
                                 EXCEPT !.group = paired_group],
                             [copy(event_positions[EventPosOf(kept[i], event_positions)]).value
                                 EXCEPT !.group = paired_group] >>],
                  city_positions |->
                      city_positions_after(city_positions, event_positions, kept,
                                           paired_group),
                  fallback_idx |-> IF late = {} THEN None ELSE MinOf(late) - 1])

\* dist >= threshold_deg, on the squares
too_far(city_coords, event_coords, threshold_deg) ==
    (city_coords[1] - event_coords[1]) * (city_coords[1] - event_coords[1])
      + (city_coords[2] - event_coords[2]) * (city_coords[2] - event_coords[2])
    >= threshold_deg * threshold_deg

\* mutant: an event that is already paired is not passed over
skip_event_unpaired_too(event_cand, paired_event_ids) == event_cand.positions = << >>

\* the two "continue" tests at the head of the loop over events
skip_event(event_cand, paired_event_ids) ==
    event_cand.id \in paired_event_ids \/ event_cand.positions = << >>

\* the PairedLabelCandidate of a city and an event with their paired positions
paired_candidate(city_cand, event_cand, built) ==
    PairedLabelCandidate(PairedId(city_cand, event_cand), "paired_label",
                         IF city_cand.priority >= event_cand.priority
                         THEN city_cand.priority ELSE event_cand.priority,
                         PairedId(city_cand, event_cand),
                         built.paired_positions,
                         IF built.fallback_idx # None THEN built.fallback_idx ELSE 0)

\* for event_cand in event_candidates, from the j-th on: the store afterwards,
\* the PairedLabelCandidate built (or None) and the index of its event
RECURSIVE scan_events(_, _, _, _, _, _, _)
scan_events(els, dpp, city_cand, event_candidates, j, paired_event_ids, threshold_deg) ==
    IF j > Len(event_candidates)
    THEN [elements |-> els, paired_cand |-> None, event |-> 0,
          city_positions |-> city_cand.positions]
    ELSE IF skip_event(event_candidates[j], paired_event_ids)
    THEN scan_events(els, dpp, city_cand, event_candidates, j + 1, paired_event_ids,
                     threshold_deg)
    ELSE IF too_far(city_cand.positions[1].coords, event_candidates[j].positions[1].coords,
                    threshold_deg)
    THEN scan_events(els, dpp, city_cand, event_candidates, j + 1, paired_event_ids,
                     threshold_deg)
    ELSE With(_make_event_positions_3tier(els, dpp, event_candidates[j]),
              LAMBDA made :
                  With(build_paired_positions(city_cand.positions, made.result,
                                              PairedId(city_cand, event_candidates[j])),
                       LAMBDA built :
                           IF built.paired_positions = << >>
                           THEN scan_events(made.elements, dpp, city_cand, event_candidates,
                                            j + 1, paired_event_ids, threshold_deg)
                           ELSE [elements |-> made.elements,
                                 paired_cand |->
                                     paired_candidate(city_cand, event_candidates[j], built),
                                 event |-> j,
                                 city_positions |-> built.city_positions]))

\* for city_cand in city_candidates, from the i-th on
RECURSIVE pair_cities(_, _, _, _, _, _, _, _, _)
pair_cities(els, dpp, city_candidates, event_candidates, i, paired_city_ids, paired_event_ids,
            paired_candidates, threshold_deg) ==
    IF i > Len(city_candidates)
    THEN [elements |-> els, paired_city_ids |-> paired_city_ids,
          paired_event_ids |-> paired_event_ids, paired_candidates |-> paired_candidates,
          city_candidates |-> city_candidates]
    ELSE IF city_candidates[i].positions = << >>
    THEN pair_cities(els, dpp, city_candidates, event_candidates, i + 1, paired_city_ids,
                     paired_event_ids, paired_candidates, threshold_deg)
    ELSE With(scan_events(els, dpp, city_candidates[i], event_candidates, 1,
                          paired_event_ids, threshold_deg),
              LAMBDA found :
                  IF found.event = 0
                  THEN pair_cities(found.elements, dpp, city_candidates, event_candidates,
                                   i + 1, paired_city_ids, paired_event_ids,
                                   paired_candidates, threshold_deg)
                  ELSE With([cities |-> paired_city_ids \cup {city_candidates[i].id},
                             events |-> paired_event_ids
                                            \cup {event_candidates[found.event].id},
                             cands |-> Append(paired_candidates, found.paired_cand),
                             city_candidates |->
                                 [city_candidates EXCEPT ![i].positions = found.city_positions]],
                            LAMBDA paired :
                                pair_cities(found.elements, dpp, paired.city_candidates,
                                            event_candidates, i + 1, paired.cities,
                                            paired.events, paired.cands, threshold_deg)))

\* detect_and_pair: the store afterwards, the three lists returned and the
\* objects of the two input lists after the call
detect_and_pair(els, dpp, city_candidates, event_candidates, threshold_pts) ==
    With(pair_cities(els, dpp, city_candidates, event_candidates, 1, {}, {}, << >>,
                     threshold_pts * dpp),
         LAMBDA done :
             [elements |-> done.elements,
              paired_candidates |-> done.paired_candidates,
              city_candidates |-> done.city_candidates,
              event_candidates |-> event_candidates,
              remaining_city |-> SelectSeq(done.city_candidates,
                                           LAMBDA c : c.id \notin done.paired_city_ids),
              remaining_event |-> SelectSeq(event_candidates,
                                            LAMBDA c : c.id \notin done.paired_event_ids)])

\* labels.py: the city label candidate with 24 positions in three tiers
\* (distance_multipliers = [1.0, 1.5, 2.0], in tenths)
CityTiers == <<10, 15, 20>>

RECURSIVE city_positions_from(_, _, _, _, _, _, _, _, _, _)
city_positions_from(dpp, id, coords, text, fontsize, city_radius, priority, group, t,
                    positions) ==
    IF t > Len(CityTiers) THEN positions
    ELSE With(tier_positions(<< >>, dpp, id, coords, priority, group, << >>,
                             <<"_t", CityTiers[t]>>, text, fontsize, "city_label",
                             get_candidate_offsets(
                                 city_radius * 1000,
                                 (city_radius * 1000 * (CityTiers[t] - 10)) \div 10),
                             1, positions).result,
              LAMBDA tier :
                  city_positions_from(dpp, id, coords, text, fontsize, city_radius, priority,
                                      group, t + 1, tier))

CityLabelPriority == 46
EventLabelPriority == 38

ManagerScales == {1000}
PairDotIds == {<<"city_dot_", "x">>}
PairDotCoords == {<<0, 0>>}
PairThresholds == {10, 25}
CityIds == {<<"city_label_", "x">>, <<"city_label_", "y">>}
EventIds == {<<"event_text_", "p">>, <<"event_text_", "q">>}
EventCoords == {<<0, 0>>, <<5000, 0>>, <<20000, 0>>}

\* a city label is a candidate without positions, a single large label at a
\* manual offset, or the 24 tier positions around the city at (0, 0)
CityPositionLists(dpp, id) ==
    { << >>,
      << add_label(<< >>, dpp, id, <<0, 0>>, <<"U", "r", "u">>, 24, -20000, 0,
                   CityLabelPriority, "city_label", NoGroup).result >>,
      city_positions_from(dpp, id, <<0, 0>>, <<"R", "o", "m", "e">>, 10, anchor_radius(2),
                          CityLabelPriority, NoGroup, 1, << >>) }

CityCandidates(dpp) ==
    UNION {{LabelCandidate(id, CityLabelPriority, NoGroup, positions) :
               positions \in CityPositionLists(dpp, id)} : id \in CityIds}

\* an event label is a candidate without positions or one fixed position
EventPositionLists(dpp, id) ==
    { << >> } \cup
    { << add_label(<< >>, dpp, id, coords, <<"Z", "a", "m", "a">>, EVENT_FONTSIZE, 0, 3000,
                   EventLabelPriority, "event_label", NoGroup).result >> : coords \in EventCoords }

EventCandidates(dpp) ==
    UNION {{LabelCandidate(id, EventLabelPriority, NoGroup, positions) :
               positions \in EventPositionLists(dpp, id)} : id \in EventIds}

CityCandidateLists(dpp) == SeqsUpTo(CityCandidates(dpp), MaxPairCands)
EventCandidateLists(dpp) == SeqsUpTo(EventCandidates(dpp), MaxPairCands)

DetectAndPairCall(dpp, city_candidates, event_candidates, threshold_pts) ==
    /\ pc = "idle"
    /\ \E r \in {detect_and_pair(elements, dpp, city_candidates, event_candidates,
                                 threshold_pts)} :
           /\ elements' = r.elements
           /\ ret' = [paired_candidates |-> r.paired_candidates,
                      remaining_city |-> r.remaining_city,
                      remaining_event |-> r.remaining_event,
                      city_candidates |-> r.city_candidates,
                      event_candidates |-> r.event_candidates]
    /\ probe' = <<"detect_and_pair", dpp, city_candidates, event_candidates, threshold_pts>>
    /\ pc' = "paired"
    /\ elements0' = elements
    /\ UNCHANGED <<candidates, order, k, resolved, unresolved, raised, hist, boxVars, anchorVars>>

\* dots are stored first; then one call in a rendering, on the candidates the
\* label generators produced
NextPair ==
    \/ /\ pc = "idle"
       /\ Len(elements) < MaxStore
       /\ \E id \in PairDotIds, coords \in PairDotCoords : AddDot(id, coords, NoGroup)
    \/ /\ pc = "idle"
       /\ \E dpp \in ManagerScales, threshold_pts \in PairThresholds :
              \E city_candidates \in CityCandidateLists(dpp),
                 event_candidates \in EventCandidateLists(dpp) :
                  DetectAndPairCall(dpp, city_candidates, event_candidates, threshold_pts)

SpecPair == Init /\ [][NextPair]_vars

-----------------------------------------------------------------------------
(* Arrow segmentation on paths long enough to be cut *)

PathShapes == {"line", "zigzag", "peak", "return"}

\* the i-th point (from 0) of a path of n points: along the x axis,
\* alternating in y, with one high point where the first run ends, or
\* turning back half way
ArrowPathPoint(i, shape, n) ==
    IF shape = "zigzag" THEN <<4 * i, IF i % 2 = 0 THEN 0 ELSE 8>>
    ELSE IF shape = "peak" THEN <<4 * i, IF i = SegmentLength THEN 40 ELSE 0>>
    ELSE IF shape = "return" THEN <<IF 2 * i < n THEN 4 * i ELSE 4 * (n - i), i>>
    ELSE <<4 * i, 0>>

ArrowPaths ==
    {[i \in 1..n |-> ArrowPathPoint(i - 1, shape, n)] : n \in 0..MaxPathLen, shape \in PathShapes}

AddCampaignArrowCall(id, path, group) ==
    /\ pc = "idle"
    /\ \E r \in {add_campaign_arrow(elements, id, path, LinewidthHalfPts, ArrowPriority, group)} :
           /\ elements' = r.elements
           /\ ret' = r.result
    /\ probe' = <<"add_campaign_arrow", id, path, group>>
    /\ pc' = "segmented"
    /\ elements0' = elements
    /\ UNCHANGED <<candidates, order, k, resolved, unresolved, raised, hist, boxVars, anchorVars>>

CreateArrowSegmentsTempCall(id, path) ==
    /\ pc = "idle"
    /\ \E r \in {_create_arrow_segments_temp(elements, id, path, LinewidthHalfPts)} :
           /\ elements' = r.elements
           /\ ret' = r.result
    /\ probe' = <<"_create_arrow_segments_temp", id, path, NoGroup>>
    /\ pc' = "segmented"
    /\ elements0' = elements
    /\ UNCHANGED <<candidates, order, k, resolved, unresolved, raised, hist, boxVars, anchorVars>>

NextSegments ==
    \/ /\ pc = "idle"
       /\ \E id \in Ids, path \in ArrowPaths, group \in ArrowGroups :
              AddCampaignArrowCall(id, path, group)
    \/ /\ pc = "idle"
       /\ \E id \in Ids, path \in ArrowPaths : CreateArrowSegmentsTempCall(TempId(id), path)

SpecSegments == Init /\ [][NextSegments]_vars

-----------------------------------------------------------------------------
(* campaign_styles.py: path geometry.  The arithmetic is exact: a sampled  *)
(* path is [den, pts], its points being the integer pairs pts over den, and *)
(* a norm is the integer square root of the sum of squares, in units of     *)
(* 1 / den.  A function that returns None or a value returns << >> or <<v>>. *)
(* Of a segment's info the path and the length are carried, the midpoint,   *)
(* normal and angle are not.                                                *)

scale(p, c) == <<c * p[1], c * p[2]>>
plus(p, q) == <<p[1] + q[1], p[2] + q[2]>>
minus(p, q) == <<p[1] - q[1], p[2] - q[2]>>

\* the largest r in lo..hi with r * r <= n
RECURSIVE isqrt_between(_, _, _)
isqrt_between(n, lo, hi) ==
    IF lo >= hi THEN lo
    ELSE LET mid == (lo + hi + 1) \div 2
         IN  IF mid * mid <= n THEN isqrt_between(n, mid, hi)
             ELSE isqrt_between(n, lo, mid - 1)

\* np.linalg.norm of one row, rounded down to the unit
norm(d) ==
    isqrt_between(d[1] * d[1] + d[2] * d[2], 0,
                  (IF d[1] < 0 THEN -d[1] ELSE d[1]) + (IF d[2] < 0 THEN -d[2] ELSE d[2]))

RECURSIVE np_sum(_)
np_sum(s) == IF s = << >> THEN 0 ELSE Head(s) + np_sum(Tail(s))

\* np.diff(path, axis=0)
np_diff(pts) == [i \in 1..(Len(pts) - 1) |-> minus(pts[i + 1], pts[i])]

\* mutant: a path of zero length gets its info, too
_compute_segment_info_zero_kept(path) ==
    LET diffs == np_diff(path.pts)
        segment_lengths == [i \in 1..Len(diffs) |-> norm(diffs[i])]
        total_length == np_sum(segment_lengths)
    IN  << [path |-> path, length |-> total_length] >>

_compute_segment_info(path) ==
    LET diffs == np_diff(path.pts)
        segment_lengths == [i \in 1..Len(diffs) |-> norm(diffs[i])]
        total_length == np_sum(segment_lengths)
    IN  IF total_length = 0 THEN << >>
        ELSE << [path |-> path, length |-> total_length] >>

\* np.linspace(0, 1, num_samples), num_samples >= 2: the i-th value is
\* (i - 1) / (num_samples - 1)
linspace_den(num_samples) == num_samples - 1

\* points[i] + t * (points[i + 1] - points[i])
segment_path(p, q, num_samples) ==
    LET d == linspace_den(num_samples)
    IN  [den |-> d,
         pts |-> [i \in 1..num_samples |-> plus(scale(p, d), scale(minus(q, p), i - 1))]]

\* curvature is given in halves; perp * length is (-direction[1], direction[0])
_quadratic_bezier(p0, p2, curvature, num_samples) ==
    LET d == linspace_den(num_samples)
        direction == minus(p2, p0)
        length == norm(direction)
        twice_p1 == plus(plus(p0, p2), scale(<<-direction[2], direction[1]>>, curvature))
    IN  IF length = 0
        THEN [den |-> d * d, pts |-> [i \in 1..num_samples |-> scale(p0, d * d)]]
        ELSE [den |-> d * d,
              pts |-> [i \in 1..num_samples |->
                          plus(plus(scale(p0, (d - (i - 1)) * (d - (i - 1))),
                                    scale(twice_p1, (d - (i - 1)) * (i - 1))),
                               scale(p2, (i - 1) * (i - 1)))]]

\* 0.5 * (2 p1 + (-p0 + p2) t + (2 p0 - 5 p1 + 4 p2 - p3) t^2
\*        + (-p0 + 3 p1 - 3 p2 + p3) t^3)
_catmull_rom_segment(p0, p1, p2, p3, num_samples) ==
    LET d == linspace_den(num_samples)
        c1 == minus(p2, p0)
        c2 == minus(plus(minus(scale(p0, 2), scale(p1, 5)), scale(p2, 4)), p3)
        c3 == plus(minus(minus(scale(p1, 3), p0), scale(p2, 3)), p3)
    IN  [den |-> 2 * d * d * d,
         pts |-> [i \in 1..num_samples |->
                     plus(plus(scale(p1, 2 * d * d * d), scale(c1, (i - 1) * d * d)),
                          plus(scale(c2, (i - 1) * (i - 1) * d),
                               scale(c3, (i - 1) * (i - 1) * (i - 1))))]]

\* the legs that got an info, in order (segments.append under "if seg_info")
RECURSIVE appended(_)
appended(infos) == IF infos = << >> THEN << >> ELSE Head(infos) \o appended(Tail(infos))

\* np.vstack(all_paths)
RECURSIVE vstack(_)
vstack(segments) ==
    IF Len(segments) = 1 THEN segments[1].path
    ELSE [den |-> segments[1].path.den,
          pts |-> segments[1].path.pts \o vstack(Tail(segments)).pts]

geometry_of(full_path, segments, points) ==
    << [full_path |-> full_path,
        segments |-> segments,
        total_length |-> np_sum([i \in 1..Len(segments) |-> segments[i].length]),
        waypoints |-> points] >>

\* the control points of leg i (from 0), extended at the boundaries
control_points(points, i) ==
    LET n == Len(points)
    IN  << IF i > 0 THEN points[i] ELSE minus(scale(points[1], 2), points[2]),
           points[i + 1],
           points[i + 2],
           IF i + 2 < n THEN points[i + 3] ELSE minus(scale(points[n], 2), points[n - 1]) >>

_get_multistop_geometry(waypoints, path_type, num_samples, curvature) ==
    LET points == waypoints
        n == Len(points)
    IN  IF n < 2 THEN << >>
        ELSE IF path_type = "segments"
        THEN LET segments ==
                     appended([i \in 1..(n - 1) |->
                         _compute_segment_info(
                             segment_path(points[i], points[i + 1], num_samples))])
             IN  IF segments = << >> THEN << >>
                 ELSE geometry_of(vstack(segments), segments, points)
        ELSE IF n = 2
        THEN LET seg_info ==
                     _compute_segment_info(
                         _quadratic_bezier(points[1], points[2], curvature, num_samples))
             IN  IF seg_info = << >> THEN << >>
                 ELSE geometry_of(seg_info[1].path, seg_info, points)
        ELSE LET segments ==
                     appended([i \in 1..(n - 1) |->
                         LET c == control_points(points, i - 1)
                         IN  _compute_segment_info(
                                 _catmull_rom_segment(c[1], c[2], c[3], c[4], num_samples))])
             IN  IF segments = << >> THEN << >>
                 ELSE geometry_of(vstack(segments), segments, points)

WaypointCoords == {<<0, 0>>, <<3, 4>>, <<6, 0>>}
WaypointLists == SeqsUpTo(WaypointCoords, MaxWaypoints)
GeometryPathTypes == {"segments", "spline"}
NumSamples == 2..MaxSamples
Curvatures == {0, 1}
SamplePaths == {[den |-> 1, pts |-> w] : w \in WaypointLists \ {<< >>}}

GetMultistopGeometryCall(waypoints, path_type, num_samples, curvature) ==
    /\ pc = "idle"
    /\ pc' = "geometry"
    /\ probe' = <<"_get_multistop_geometry", waypoints, path_type, num_samples, curvature>>
    /\ ret' = _get_multistop_geometry(waypoints, path_type, num_samples, curvature)
    /\ UNCHANGED <<elements, callVars, boxVars, anchorVars>>

ComputeSegmentInfoCall(path) ==
    /\ pc = "idle"
    /\ pc' = "geometry"
    /\ probe' = <<"_compute_segment_info", path>>
    /\ ret' = _compute_segment_info(path)
    /\ UNCHANGED <<elements, callVars, boxVars, anchorVars>>

NextGeometry ==
    \/ /\ pc = "idle"
       /\ \E waypoints \in WaypointLists, path_type \in GeometryPathTypes,
             num_samples \in NumSamples, curvature \in Curvatures :
              GetMultistopGeometryCall(waypoints, path_type, num_samples, curvature)
    \/ /\ pc = "idle"
       /\ \E path \in SamplePaths : ComputeSegmentInfoCall(path)

SpecGeometry == Init /\ [][NextGeometry]_vars

-----------------------------------------------------------------------------
(* campaigns.py: the labels of the campaigns are collected from the         *)
(* resolved arrow geometry, resolved by resolve_greedy and rendered.  Of a  *)
(* segment the length, midpoint, normal and angle are carried; angles are   *)
(* multiples of 90 degrees; a box is rounded to whole map units.            *)

CampaignLabelPriority == 40
CampaignGapPts == 8
FontsizeAbove == 9
FontsizeBelow == 8

CampaignGroup(idx) == IF idx = 0 THEN "campaign_0" ELSE "campaign_1"
CampaignLabelId(idx, side) == <<"campaign_", idx, side>>
CampaignSegId(idx, side, seg_idx) == <<"campaign_", idx, side, "_seg", seg_idx>>

\* add_campaign_label: the store afterwards and the element returned
add_campaign_label(els, dpp, id, coords, text, fontsize, rotation, normal, group) ==
    LET text_width_deg == (Len(text) * fontsize * 6 * dpp) \div 10
        text_height_deg == (fontsize * 12 * dpp) \div 10
        gap_deg == CampaignGapPts * dpp
        x_offset_deg == normal[1] * gap_deg
        y_offset_deg == normal[2] * gap_deg
        center_x == coords[1] + x_offset_deg
        center_y == coords[2] + y_offset_deg
        cos_r == IF rotation % 180 = 0 THEN 1 ELSE 0
        sin_r == 1 - cos_r
        aabb_width == text_width_deg * cos_r + text_height_deg * sin_r
        aabb_height == text_width_deg * sin_r + text_height_deg * cos_r
        bbox == << center_x - aabb_width \div 2, center_y - aabb_height \div 2,
                   center_x + aabb_width \div 2, center_y + aabb_height \div 2 >>
        element == [id |-> id, type |-> "campaign_label", coords |-> coords,
                    offset |-> <<x_offset_deg, y_offset_deg>>, bbox |-> bbox,
                    priority |-> CampaignLabelPriority, text |-> text, group |-> group,
                    segment_idx |-> None]
    IN  [elements |-> Put(els, element), result |-> element]

\* sorted(geometry['segments'], key=lambda s: -s['length']): insert segment
\* behind every segment whose key is not larger (stable)
RECURSIVE insert_by_length(_, _)
insert_by_length(ranked, segment) ==
    IF ranked = << >> THEN <<segment>>
    ELSE IF -Head(ranked).length <= -segment.length
         THEN <<Head(ranked)>> \o insert_by_length(Tail(ranked), segment)
         ELSE <<segment>> \o ranked

RECURSIVE ranked_upto(_, _)
ranked_upto(segments, n) ==
    IF n = 0 THEN << >> ELSE insert_by_length(ranked_upto(segments, n - 1), segments[n])

_get_label_candidates(geometry) == ranked_upto(geometry.segments, Len(geometry.segments))

\* the loop "for seg_idx, candidate in enumerate(candidates)" of one label:
\* the store afterwards and the positions
RECURSIVE label_positions(_, _, _, _, _, _, _, _, _)
label_positions(els, dpp, idx, side, text, fontsize, ranked, seg_idx, positions) ==
    IF seg_idx >= Len(ranked) THEN [elements |-> els, positions |-> positions]
    ELSE LET candidate == ranked[seg_idx + 1]
             normal == IF side = "_above" THEN candidate.normal
                       ELSE <<-candidate.normal[1], -candidate.normal[2]>>
             added == add_campaign_label(els, dpp, CampaignSegId(idx, side, seg_idx),
                                         candidate.midpoint, text, fontsize, candidate.angle,
                                         normal, CampaignGroup(idx))
             element == [added.result EXCEPT !.id = CampaignLabelId(idx, side),
                                             !.segment_idx = seg_idx]
         IN  label_positions(remove(added.elements, CampaignSegId(idx, side, seg_idx)).elements,
                             dpp, idx, side, text, fontsize, ranked, seg_idx + 1,
                             Append(positions, element))

\* the label candidates of campaign idx: the store afterwards and the candidates
campaign_label_candidates(els, dpp, idx, item) ==
    LET ranked == _get_label_candidates(item.geometry)
        above == label_positions(els, dpp, idx, "_above", item.label_above, FontsizeAbove,
                                 ranked, 0, << >>)
        els_above == IF item.label_above # << >> THEN above.elements ELSE els
        below == label_positions(els_above, dpp, idx, "_below", item.label_below,
                                 FontsizeBelow, ranked, 0, << >>)
    IN  [elements |-> IF item.label_below # << >> THEN below.elements ELSE els_above,
         result |->
             (IF item.label_above # << >>
              THEN << LabelCandidate(CampaignLabelId(idx, "_above"), CampaignLabelPriority,
                                     CampaignGroup(idx), above.positions) >>
              ELSE << >>)
             \o
             (IF item.label_below # << >>
              THEN << LabelCandidate(CampaignLabelId(idx, "_below"), CampaignLabelPriority,
                                     CampaignGroup(idx), below.positions) >>
              ELSE << >>)]

\* collect_campaign_labels over the campaigns whose arrows are resolved, item
\* idx (from 0) carrying the resolved geometry of campaign_arrow_idx
RECURSIVE collect_campaign_labels_from(_, _, _, _, _)
collect_campaign_labels_from(els, dpp, campaigns, idx, campaign_candidates) ==
    IF idx >= Len(campaigns) THEN [elements |-> els, result |-> campaign_candidates]
    ELSE LET item == campaigns[idx + 1]
         IN  IF item.label_above = << >> /\ item.label_below = << >>
             THEN collect_campaign_labels_from(els, dpp, campaigns, idx + 1, campaign_candidates)
             ELSE LET c == campaign_label_candidates(els, dpp, idx, item)
                  IN  collect_campaign_labels_from(c.elements, dpp, campaigns, idx + 1,
                                                   campaign_candidates \o c.result)

collect_campaign_labels(els, dpp, campaigns) ==
    collect_campaign_labels_from(els, dpp, campaigns, 0, << >>)

\* key in d, d[key] for the dict resolve_greedy returns
HasKey(d, key) == \E i \in 1..Len(d) : d[i].key = key
Get(d, key) == d[CHOOSE i \in 1..Len(d) : d[i].key = key].value

\* render_campaigns_resolved, one campaign: the arguments of apply_campaign
render_campaign(campaign, resolved_positions) ==
    LET idx == campaign.idx
        geometry == campaign.geometry
        above_id == CampaignLabelId(idx, "_above")
        below_id == CampaignLabelId(idx, "_below")
        resolved_seg_idx ==
            IF HasKey(resolved_positions, above_id)
            THEN Get(resolved_positions, above_id).segment_idx
            ELSE IF HasKey(resolved_positions, below_id)
            THEN Get(resolved_positions, below_id).segment_idx
            ELSE None
        ranked == _get_label_candidates(geometry)
        label_segment ==
            IF resolved_seg_idx # None /\ resolved_seg_idx < Len(ranked)
            THEN ranked[resolved_seg_idx + 1]
            ELSE geometry.segments[1]
    IN  [idx |-> idx, geometry |-> geometry, label_segment |-> label_segment,
         label_above |-> campaign.label_above, label_below |-> campaign.label_below]

render_campaigns_resolved(campaign_render_data, resolved_positions) ==
    [c \in 1..Len(campaign_render_data) |->
        render_campaign(campaign_render_data[c], resolved_positions)]

\* the render data of the campaigns, the geometry set after arrow resolution
campaign_render_data_of(campaigns) ==
    [c \in 1..Len(campaigns) |->
        [idx |-> c - 1, geometry |-> campaigns[c].geometry,
         label_above |-> campaigns[c].label_above, label_below |-> campaigns[c].label_below]]

\* a horizontal and a vertical leg with its midpoint and length
LegEast(midpoint, length) ==
    [length |-> length, midpoint |-> midpoint, normal |-> <<0, -1>>, angle |-> 0]
LegNorth(midpoint, length) ==
    [length |-> length, midpoint |-> midpoint, normal |-> <<1, 0>>, angle |-> 90]

CampaignGeometries ==
    { [segments |-> << LegEast(<<150, 0>>, 300) >>],
      [segments |-> << LegEast(<<150, 0>>, 300), LegEast(<<400, 0>>, 200) >>],
      [segments |-> << LegEast(<<100, 0>>, 200), LegEast(<<350, 0>>, 300) >>],
      [segments |-> << LegEast(<<150, 0>>, 300), LegNorth(<<300, 100>>, 200) >> ] }

LabelsAbove == {<< >>, <<"G", "a", "u", "l", "s">>}
LabelsBelow == {<< >>, <<"3", "9", "0", "B", "C">>}

CampaignItems ==
    { [geometry |-> g, label_above |-> a, label_below |-> b] :
      g \in CampaignGeometries, a \in LabelsAbove, b \in LabelsBelow }

CampaignLists == SeqsUpTo(CampaignItems, MaxCampaigns)

\* dots on either side of the midpoints
CampaignDotIds == {<<"city_dot_", "x">>, <<"city_dot_", "y">>}
CampaignDotCoords == {<<150, -40>>, <<150, 40>>, <<350, -40>>, <<400, 40>>}

\* collect_campaign_labels, its candidates handed to resolve_greedy
CollectCampaignLabelsCall(campaigns) ==
    /\ pc = "idle"
    /\ \E c \in {collect_campaign_labels(elements, Dpp, campaigns)} :
           /\ elements' = c.elements
           /\ elements0' = c.elements
           /\ candidates' = c.result
           /\ order' = sorted_candidates(c.result)
    /\ pc' = "greedy"
    /\ k' = 0
    /\ resolved' = << >>
    /\ unresolved' = << >>
    /\ raised' = ""
    /\ hist' = << >>
    /\ probe' = <<"collect_campaign_labels", campaigns>>
    /\ ret' = << >>
    /\ UNCHANGED <<boxVars, anchorVars>>

RenderCampaignsResolvedCall ==
    /\ pc = "done_greedy"
    /\ raised = ""
    /\ pc' = "rendered"
    /\ ret' = render_campaigns_resolved(campaign_render_data_of(probe[2]), resolved)
    /\ UNCHANGED <<elements, callVars, probe, boxVars, anchorVars>>

NextCampaign ==
    \/ /\ pc = "idle"
       /\ Len(elements) < MaxStore
       /\ \E id \in CampaignDotIds, coords \in CampaignDotCoords : AddDot(id, coords, NoGroup)
    \/ /\ pc = "idle"
       /\ \E campaigns \in CampaignLists : CollectCampaignLabelsCall(campaigns)
    \/ ResolveGreedyLoop
    \/ ResolveGreedyReturn
    \/ RenderCampaignsResolvedCall

SpecCampaign == Init /\ [][NextCampaign]_vars

-----------------------------------------------------------------------------
(* Notions the properties are stated in *)

\* closed-interval overlap on both axes
ClosedIntervalTest(a, b) ==
    /\ a[1] <= b[3] /\ b[1] <= a[3]
    /\ a[2] <= b[4] /\ b[2] <= a[4]

WellFormed(a) == a[1] <= a[3] /\ a[2] <= a[4]

Contains(a, b) == a[1] <= b[1] /\ b[3] <= a[3] /\ a[2] <= b[2] /\ b[4] <= a[4]

\* the two elements share a non-empty group
ShareGroup(e, f) == e.group # "" /\ f.group # "" /\ e.group = f.group

\* a disqualifying overlap of element e with something in the store
Blocked(store, e) ==
    \E i \in 1..Len(store) :
        ClosedIntervalTest(e.bbox, store[i].bbox) /\ ~ ShareGroup(e, store[i])

FreeIdx(store, positions) ==
    {i \in 0..(Len(positions) - 1) : ~ Blocked(store, positions[i + 1])}

InGreedy == pc \in {"greedy", "done_greedy"}
InArrows == pc \in {"arrows", "done_arrows"}

HistCandidate(j) == candidates[hist[j].candidate]

\* the variant committed for the j-th processed label candidate
Chosen(j) == HistCandidate(j).positions[HistCandidate(j).resolved_idx + 1]

StoreAfter(j) == IF j < Len(hist) THEN hist[j + 1].elements ELSE elements

\* ids this call has committed a variant for, and those whose stored variant
\* was committed although all of its candidate's variants overlapped
Commits == {j \in 1..Len(hist) : Len(HistCandidate(j).positions) > 0}
CommittedIds == {HistCandidate(j).id : j \in Commits}
LastCommit(id) == MaxOf({j \in Commits : HistCandidate(j).id = id})
FallbackIds == {id \in CommittedIds : ~ hist[LastCommit(id)].placed}

DistinctPriorities ==
    \A i, j \in 1..Len(candidates) : i # j => candidates[i].priority # candidates[j].priority

Reorderings(n) == {f \in [1..n -> 1..n] : \A i, j \in 1..n : i # j => f[i] # f[j]}

\* the candidates as they were handed in
InputCandidates == [i \in 1..Len(candidates) |-> [candidates[i] EXCEPT !.resolved_idx = -1]]

\* two candidates of different priority: the one resolve_greedy processes
\* first, the other one, and the run that resolves the other one first
Higher == IF candidates[1].priority > candidates[2].priority THEN 1 ELSE 2
Lower == 3 - Higher
LowerFirstRun == resolve_greedy_in_order(elements0, InputCandidates, <<Lower, Higher>>, 1)
LowerAloneRun == resolve_greedy_in_order(elements0, InputCandidates, <<Lower>>, 1)

\* some variant of the one intersects some variant of the other
Contend ==
    \E i \in 1..Len(candidates[1].positions), j \in 1..Len(candidates[2].positions) :
        /\ ClosedIntervalTest(candidates[1].positions[i].bbox, candidates[2].positions[j].bbox)
        /\ ~ ShareGroup(candidates[1].positions[i], candidates[2].positions[j])

FreshIds ==
    /\ candidates[1].id # candidates[2].id
    /\ candidates[1].id \notin Keys(elements0)
    /\ candidates[2].id \notin Keys(elements0)

\* in the run that resolves the lower candidate first, the higher one still
\* finds a variant without overlap
HigherPlacedAfterLower ==
    /\ LowerAloneRun.raised = ""
    /\ FreeIdx(LowerAloneRun.elements, candidates[Higher].positions) # {}

TwoPriorities == pc = "done_greedy" /\ Len(candidates) = 2 /\ DistinctPriorities

VariantCount(c) == IF InGreedy THEN Len(c.positions) ELSE Len(c.variants)

Done == pc \in {"done_greedy", "done_arrows"}

ResultForEveryCandidate ==
    /\ raised = ""
    /\ \A i \in 1..Len(candidates) :
           /\ 0 <= candidates[i].resolved_idx
           /\ candidates[i].resolved_idx < VariantCount(candidates[i])
           /\ \E r \in 1..Len(resolved) : resolved[r].key = candidates[i].id

\* the segment elements the code builds to probe variant i (0-based) of arrow c
ProbeSegments(c, i) ==
    _create_arrow_segments_temp(<< >>, TempId(c.id), c.variants[i + 1].path,
                                LinewidthHalfPts).result

\* the segment's bbox intersects the bbox of some stored element
MeetsStored(store, seg) ==
    \E i \in 1..Len(store) : ClosedIntervalTest(seg.bbox, store[i].bbox)

\* the variants of arrow c none of whose segments intersects a stored element
FreeVariants(store, c) ==
    {i \in 0..(Len(c.variants) - 1) :
        \A s \in 1..Len(ProbeSegments(c, i)) : ~ MeetsStored(store, ProbeSegments(c, i)[s])}

\* the stored form of a probed segment of arrow c: the probe's box under the
\* arrow's own id, priority and group
StoredSegment(c, seg) ==
    [id |-> Tail(seg.id), type |-> "campaign_arrow", bbox |-> seg.bbox,
     priority |-> c.priority, group |-> c.group]

\* the segments stored for the j-th processed arrow
ChosenSegments(j) ==
    LET c == HistCandidate(j)
    IN  IF c.resolved_idx < 0 THEN << >>
        ELSE [s \in 1..Len(ProbeSegments(c, c.resolved_idx)) |->
                 StoredSegment(c, ProbeSegments(c, c.resolved_idx)[s])]

RECURSIVE PriorPlusSegments(_)
PriorPlusSegments(j) ==
    IF j = 0 THEN elements0 ELSE PriorPlusSegments(j - 1) \o ChosenSegments(j)

\* the variants the scan of the j-th processed candidate rejected
Rejected(j) ==
    IF hist[j].placed THEN 0..(HistCandidate(j).resolved_idx - 1)
    ELSE 0..(VariantCount(HistCandidate(j)) - 1)

RECURSIVE PriorPlusChosen(_)
PriorPlusChosen(j) ==
    IF j = 0 THEN elements0 ELSE Put(PriorPlusChosen(j - 1), Chosen(j))

-----------------------------------------------------------------------------
(* Properties *)

\* C1: for every candidate resolve_greedy has processed (with at least one
\* variant), resolved_idx is the smallest index whose position has no
\* disqualifying overlap against the store as it stood then, which is the
\* pre-existing store plus the variants committed for the candidates processed
\* earlier; if every variant overlaps, resolved_idx is 0; the chosen variant
\* is in the store and in the result mapping right after.
C1_FirstFreeVariantOrFirst ==
    InGreedy =>
        \A j \in 1..Len(hist) :
            LET c == HistCandidate(j)
                free == FreeIdx(hist[j].elements, c.positions)
            IN  Len(c.positions) > 0 =>
                    /\ hist[j].elements = PriorPlusChosen(j - 1)
                    /\ c.resolved_idx = IF free # {} THEN MinOf(free) ELSE 0
                    /\ hist[j].placed = (free # {})
                    /\ \E i \in 1..Len(StoreAfter(j)) : StoreAfter(j)[i] = Chosen(j)
                    /\ j = Len(hist) =>
                           \E i \in 1..Len(resolved) :
                               resolved[i] = [key |-> c.id, value |-> Chosen(j)]

\* a rejected first variant with a free second one, and a fallback, in one call
C1_Witness ==
    /\ pc = "done_greedy"
    /\ Len(hist) = 2
    /\ HistCandidate(1).resolved_idx = 1
    /\ hist[1].placed
    /\ Len(HistCandidate(2).positions) = 2
    /\ ~ hist[2].placed
    /\ HistCandidate(2).resolved_idx = 0

\* C2: while and after resolve_greedy runs, every two stored elements whose
\* bboxes intersect and that share no non-empty group, at least one of them
\* committed by this call, include a label this call committed by fallback.
C2_OverlapsOnlyByFallback ==
    InGreedy =>
        \A i, j \in 1..Len(elements) :
            ( /\ i # j
              /\ ClosedIntervalTest(elements[i].bbox, elements[j].bbox)
              /\ ~ ShareGroup(elements[i], elements[j])
              /\ (elements[i].id \in CommittedIds \/ elements[j].id \in CommittedIds) )
            => (elements[i].id \in FallbackIds \/ elements[j].id \in FallbackIds)

\* two labels committed next to an obstacle without any fallback, one of them
\* on its second variant, one intersecting only an element of its own group
C2_Witness ==
    /\ pc = "done_greedy"
    /\ raised = ""
    /\ unresolved = << >>
    /\ Len(elements) = 3
    /\ Len(hist) = 2
    /\ \E j \in 1..2 : HistCandidate(j).resolved_idx = 1
    /\ \E i, j \in 1..3 :
           /\ i # j
           /\ ClosedIntervalTest(elements[i].bbox, elements[j].bbox)
           /\ ShareGroup(elements[i], elements[j])

\* C3: resolve_greedy processes the candidates in non-increasing priority
\* order, equal priorities in input order, each candidate once; and when all
\* priorities are distinct, every permutation of the input list gives every
\* candidate the same resolved index.
C3_PriorityOrderStable ==
    InGreedy =>
        /\ \A i, j \in 1..Len(hist) :
               i < j =>
                   /\ HistCandidate(i).priority >= HistCandidate(j).priority
                   /\ HistCandidate(i).priority = HistCandidate(j).priority
                          => hist[i].candidate < hist[j].candidate
        /\ (pc = "done_greedy" /\ raised = "") =>
               {hist[j].candidate : j \in 1..Len(hist)} = 1..Len(candidates)
        /\ (pc = "done_greedy" /\ DistinctPriorities) =>
               \A perm \in Reorderings(Len(candidates)) :
                   LET permuted == [i \in 1..Len(candidates) |-> InputCandidates[perm[i]]]
                       run == resolve_greedy(elements0, permuted)
                   IN  \A i \in 1..Len(candidates) :
                           run.candidates[i].resolved_idx = candidates[perm[i]].resolved_idx

\* the lower-priority candidate comes first in the input, is processed second
\* and has to move to its second variant
C3_Witness ==
    /\ pc = "done_greedy"
    /\ Len(candidates) = 2
    /\ candidates[1].priority < candidates[2].priority
    /\ hist[1].candidate = 2
    /\ candidates[2].resolved_idx = 0
    /\ candidates[1].resolved_idx = 1
    /\ hist[2].placed

\* C4 as stated: of two contending candidates with fresh, different ids the
\* higher-priority one gets from resolve_greedy an index less than or equal to
\* the index it gets in the run that resolves the lower-priority one first.
C4_NeverWorseThanLowerFirst ==
    (TwoPriorities /\ Contend /\ FreshIds) =>
        candidates[Higher].resolved_idx <= LowerFirstRun.candidates[Higher].resolved_idx

\* C4 amended: the same, provided that in the run that resolves the
\* lower-priority candidate first the higher-priority one is placed without
\* overlap (is not committed by fallback to index 0), and that the
\* lower-priority candidate's id is not the id of an element already stored.
C4_NeverWorseUnlessFallback ==
    ( /\ TwoPriorities
      /\ candidates[Lower].id \notin Keys(elements0)
      /\ HigherPlacedAfterLower )
    => candidates[Higher].resolved_idx <= LowerFirstRun.candidates[Higher].resolved_idx

\* priority pays: processed first the higher candidate keeps variant 0,
\* resolved after the lower one it has to move to variant 1
C4_Witness ==
    /\ TwoPriorities
    /\ Contend
    /\ FreshIds
    /\ HigherPlacedAfterLower
    /\ candidates[Higher].resolved_idx = 0
    /\ LowerFirstRun.candidates[Higher].resolved_idx = 1

\* C5: whatever the lengths of the variant lists, the call ends without
\* raising, every resolved_idx is a valid index and the mapping has an entry
\* for every candidate id.
C5_AlwaysAResult == Done => ResultForEveryCandidate

\* C6: resolve_arrows processes the arrows in input order; each gets the
\* smallest variant index none of whose segments intersects an element stored
\* at that moment (the prior store plus the segments committed for earlier
\* arrows), and the last index only when every variant has such a segment.
C6_FirstFreeVariantOrLast ==
    InArrows =>
        \A j \in 1..Len(hist) :
            LET c == HistCandidate(j)
                free == FreeVariants(hist[j].elements, c)
            IN  /\ hist[j].candidate = j
                /\ hist[j].elements = PriorPlusSegments(j - 1)
                /\ c.resolved_idx = IF free # {} THEN MinOf(free) ELSE Len(c.variants) - 1
                /\ hist[j].placed = (free # {})

\* one arrow whose first variant is rejected for its second segment alone and
\* that takes its second variant, one arrow that ends on its last variant
\* because every variant overlaps
C6_Witness ==
    /\ pc = "done_arrows"
    /\ Len(hist) = 2
    /\ \E j \in 1..2 :
           /\ hist[j].placed
           /\ HistCandidate(j).resolved_idx = 1
           /\ Len(ProbeSegments(HistCandidate(j), 0)) = 2
           /\ ~ MeetsStored(hist[j].elements, ProbeSegments(HistCandidate(j), 0)[1])
           /\ MeetsStored(hist[j].elements, ProbeSegments(HistCandidate(j), 0)[2])
    /\ \E j \in 1..2 :
           /\ ~ hist[j].placed
           /\ HistCandidate(j).resolved_idx = 1

\* C7: during and after resolve_arrows the store is the prior store followed
\* by exactly the segments of the variant chosen for each processed arrow,
\* with the boxes that were probed for it; no element with a temporary id and
\* no segment of a rejected variant is stored.
C7_OnlyChosenSegmentsStored ==
    InArrows =>
        /\ elements = PriorPlusSegments(Len(hist))
        /\ \A i \in 1..Len(elements) : Head(elements[i].id) # "temp_"
        /\ Cardinality(Keys(elements)) = Len(elements)

\* a rejected first variant, a chosen variant of two segments, a prior element
C7_Witness ==
    /\ pc = "done_arrows"
    /\ raised = ""
    /\ Len(elements0) = 1
    /\ \E j \in 1..Len(hist) :
           /\ HistCandidate(j).resolved_idx = 1
           /\ Len(ChosenSegments(j)) = 2
           /\ ProbeSegments(HistCandidate(j), 0) # << >>
    /\ Len(elements) >= 3

\* C8 as stated, for the two resolution calls: no variant is rejected unless
\* it intersects a stored element outside its candidate's own non-empty group.
C8_SameGroupNeverRejects ==
    /\ InGreedy =>
           \A j \in 1..Len(hist) : \A i \in Rejected(j) :
               Blocked(hist[j].elements, HistCandidate(j).positions[i + 1])
    /\ InArrows =>
           \A j \in 1..Len(hist) : \A i \in Rejected(j) :
               \E s \in 1..Len(ProbeSegments(HistCandidate(j), i)) :
                   \E e \in 1..Len(hist[j].elements) :
                       /\ ClosedIntervalTest(ProbeSegments(HistCandidate(j), i)[s].bbox,
                                             hist[j].elements[e].bbox)
                       /\ ~ ShareGroup(HistCandidate(j), hist[j].elements[e])

\* the indices add_attachment has returned
Registered == 0..(Len(attachments) - 1)

\* the angles a fresh circle with the same attachment list resolves
FreshAngles == resolve(attachments, << >>)

\* the angle stored for attachment index i
ResolvedAngle(i) == GetKey(_angles, i, 0)

EqualPriorities == \A i, j \in 1..Len(attachments) : attachments[i].priority = attachments[j].priority

\* the attachments whose priority is strictly above every other one's
StrictlyHighest ==
    {i \in 1..Len(attachments) :
        \A j \in 1..Len(attachments) : j # i => attachments[j].priority < attachments[i].priority}

Abs(x) == IF x < 0 THEN -x ELSE x

\* C12: resolved with n >= 3 attachments of equal priority, every slot
\* k * 360/n, 0 <= k < n, is the angle of exactly one attachment.
C12_EqualSlotsEachOnce ==
    (_resolved /\ Len(attachments) >= 3 /\ EqualPriorities) =>
        \A slot \in 0..(Len(attachments) - 1) :
            Cardinality({i \in Registered :
                            ResolvedAngle(i) = slot * (360 \div Len(attachments))}) = 1

\* C13: resolved with exactly two attachments, the two angles differ by 180.
C13_TwoAre180Apart ==
    (_resolved /\ Len(attachments) = 2) => Abs(ResolvedAngle(0) - ResolvedAngle(1)) = 180

\* two attachments that asked for different angles; the first angle is past
\* 180, so the opposite one wraps around
C13_Witness ==
    /\ _resolved
    /\ Len(attachments) = 2
    /\ attachments[1].preferred_angle # attachments[2].preferred_angle
    /\ attachments[1].priority # attachments[2].priority
    /\ ResolvedAngle(0) - ResolvedAngle(1) = 180
    /\ probe = <<"resolve">>

\* C14: resolved with exactly two attachments, the one with the strictly
\* higher priority (the first registered on a tie) has its preferred angle a
\* and the other one has (a + 180) mod 360.
C14_HigherKeepsOtherOpposite ==
    (_resolved /\ Len(attachments) = 2) =>
        LET w == IF attachments[2].priority > attachments[1].priority THEN 2 ELSE 1
            a == attachments[w].preferred_angle
        IN  /\ ResolvedAngle(w - 1) = a
            /\ ResolvedAngle(2 - w) = (a + 180) % 360

\* the attachment registered second has the higher priority and keeps its
\* angle; the first one asked for another angle that is not the opposite one
C14_Witness ==
    /\ _resolved
    /\ Len(attachments) = 2
    /\ attachments[2].priority > attachments[1].priority
    /\ ResolvedAngle(1) = attachments[2].preferred_angle
    /\ attachments[1].preferred_angle # attachments[2].preferred_angle
    /\ attachments[1].preferred_angle # ResolvedAngle(0)

\* C15: resolved with n >= 2 attachments, no two angles are the same
\* direction: the angles are pairwise distinct modulo 360.
C15_DistinctDirections ==
    (_resolved /\ Len(attachments) >= 2) =>
        \A i, j \in Registered : i # j => ResolvedAngle(i) % 360 # ResolvedAngle(j) % 360

\* C16: add_attachment clears the flag and returns the next index; in every
\* state the operations reach, get_angle and get_offset answer for every
\* registered index with the angle a fresh circle with the same attachments
\* resolves, and so did the call just made.
C16_NoStaleAngle ==
    /\ (Len(probe) > 0 /\ probe[1] = "add_attachment") =>
           ~ _resolved /\ ret = Len(attachments) - 1
    /\ _resolved => \A i \in Registered : ResolvedAngle(i) = FreshAngles[i]
    /\ \A i \in Registered :
           /\ get_angle(attachments, _resolved, _angles, i).result = FreshAngles[i]
           /\ get_offset(radius, attachments, _resolved, _angles, i).result
                  = [r |-> radius, t |-> 90 - FreshAngles[i]]
    /\ (Len(probe) > 0 /\ probe[1] = "get_angle" /\ probe[2] \in Registered) =>
           ret = FreshAngles[probe[2]]
    /\ (Len(probe) > 0 /\ probe[1] = "get_offset" /\ probe[2] \in Registered) =>
           ret = [r |-> radius, t |-> 90 - FreshAngles[probe[2]]]

\* get_angle has just answered for the first attachment with an angle other
\* than the one it had while it was alone on the circle
C16_Witness ==
    /\ probe = <<"get_angle", 0>>
    /\ Len(attachments) = 2
    /\ ret # attachments[1].preferred_angle
    /\ ret = FreshAngles[0]
    /\ _resolved

Paired == pc = "paired"
PairDpp == probe[2]
PairCities == probe[3]
PairEvents == probe[4]
PairThresholdDeg == probe[5] * probe[2]
PairedCands == ret.paired_candidates

Count(v, seq) == Cardinality({i \in 1..Len(seq) : seq[i] = v})

\* the city label and the event label a returned pair places
CityOf(paired_cand) == paired_cand.positions[1][1]
EventOf(paired_cand) == paired_cand.positions[1][2]

\* the number of returned pairs built from an input candidate
PairsOfCity(cand) ==
    Cardinality({n \in 1..Len(PairedCands) :
                    /\ CityOf(PairedCands[n]).id = cand.id
                    /\ cand.positions # << >>
                    /\ CityOf(PairedCands[n]).coords = cand.positions[1].coords})
PairsOfEvent(cand) ==
    Cardinality({n \in 1..Len(PairedCands) :
                    /\ EventOf(PairedCands[n]).id = cand.id
                    /\ cand.positions # << >>
                    /\ EventOf(PairedCands[n]).coords = cand.positions[1].coords})

\* every input candidate is in exactly one place
Partitioned ==
    /\ \A c \in Range(PairCities) :
           Count(c, PairCities) = Count(c, ret.remaining_city) + PairsOfCity(c)
    /\ \A e \in Range(PairEvents) :
           Count(e, PairEvents) = Count(e, ret.remaining_event) + PairsOfEvent(e)

\* no city is in two returned pairs and no event is
OnePartnerEach ==
    \A m, n \in 1..Len(PairedCands) :
        m # n => /\ CityOf(PairedCands[m]).id # CityOf(PairedCands[n]).id
                 /\ EventOf(PairedCands[m]).id # EventOf(PairedCands[n]).id

\* a city and an event within the threshold whose positions all intersect
ZeroPairs(c, e) ==
    /\ c.positions # << >>
    /\ e.positions # << >>
    /\ ~ too_far(c.positions[1].coords, e.positions[1].coords, PairThresholdDeg)
    /\ kept_steps(c.positions, _make_event_positions_3tier(<< >>, PairDpp, e).result) = << >>

\* C18: in every PairedLabelCandidate detect_and_pair returns, the two boxes
\* of every position [c, e] do not intersect, and fallback_idx is the index of
\* one of these positions.
C18_NoIntersectingPair ==
    Paired =>
        \A n \in 1..Len(PairedCands) :
            /\ \A p \in 1..Len(PairedCands[n].positions) :
                   ~ _bbox_intersects(PairedCands[n].positions[p][1].bbox,
                                      PairedCands[n].positions[p][2].bbox)
            /\ PairedCands[n].fallback_idx + 1 \in 1..Len(PairedCands[n].positions)

\* a pair was returned from which intersecting positions were dropped and
\* whose fallback is not its first position
C18_Witness ==
    /\ Paired
    /\ \E n \in 1..Len(PairedCands) :
           /\ PairedCands[n].fallback_idx > 0
           /\ Len(PairedCands[n].positions) < 24 * 24
           /\ Len(PairedCands[n].positions) > 1

EventIndexOf(paired_cand) ==
    CHOOSE j \in 1..Len(PairEvents) : PairEvents[j].id = EventOf(paired_cand).id

\* the index in the input of the city a returned pair places
CityIndexOf(paired_cand) ==
    CHOOSE i \in 1..Len(PairCities) : PairCities[i].id = CityOf(paired_cand).id

\* C20: the partner of a city is the first event, in input order among the
\* events not yet paired, that lies within the threshold of the city; no
\* later event is chosen for that city.
C20_FirstEventWithinThreshold ==
    (Paired /\ DistinctIds(PairCities) /\ DistinctIds(PairEvents)) =>
        \A n \in 1..Len(PairedCands) :
            \A j \in 1..(EventIndexOf(PairedCands[n]) - 1) :
                \/ PairEvents[j].positions = << >>
                \/ \E m \in 1..(n - 1) : EventOf(PairedCands[m]).id = PairEvents[j].id
                \/ too_far(PairCities[CityIndexOf(PairedCands[n])].positions[1].coords,
                           PairEvents[j].positions[1].coords, PairThresholdDeg)

\* the index of the position with a given box in a list of positions
BoxIndex(bbox, positions) == CHOOSE i \in 1..Len(positions) : positions[i].bbox = bbox

\* positions lists the non-intersecting combinations of city_positions and
\* event_positions, each once, city-major and event-minor, and fallback_idx is
\* the index of the first of them whose city index is >= 8, or 0
CityMajorIndices(idx, fallback_idx, city_positions, event_positions) ==
    LET late == {p \in 1..Len(idx) : idx[p][1] >= 8}
    IN  /\ \A p \in 1..(Len(idx) - 1) :
               \/ idx[p][1] < idx[p + 1][1]
               \/ idx[p][1] = idx[p + 1][1] /\ idx[p][2] < idx[p + 1][2]
        /\ Range(idx) =
               {ij \in (0..(Len(city_positions) - 1)) \X (0..(Len(event_positions) - 1)) :
                   ~ _bbox_intersects(city_positions[ij[1] + 1].bbox,
                                      event_positions[ij[2] + 1].bbox)}
        /\ fallback_idx \in 0..(Len(idx) - 1)
        /\ IF late = {} THEN fallback_idx = 0
           ELSE /\ fallback_idx + 1 \in late
                /\ \A p \in 1..fallback_idx : idx[p][1] < 8

CityMajor(positions, fallback_idx, city_positions, event_positions) ==
    /\ \A p \in 1..Len(positions) :
           /\ \E i \in 1..Len(city_positions) : city_positions[i].bbox = positions[p][1].bbox
           /\ \E j \in 1..Len(event_positions) : event_positions[j].bbox = positions[p][2].bbox
    /\ With([p \in 1..Len(positions) |->
                <<BoxIndex(positions[p][1].bbox, city_positions) - 1,
                  BoxIndex(positions[p][2].bbox, event_positions) - 1>>],
            LAMBDA idx : CityMajorIndices(idx, fallback_idx, city_positions, event_positions))

\* C21: in every PairedLabelCandidate returned, the positions are listed
\* city-position-major and event-position-minor in first-encountered order and
\* fallback_idx is the index of the first pair whose city position has index
\* >= 8 when there is one, and 0 otherwise.
C21_CityMajorAndFallback ==
    Paired =>
        \A n \in 1..Len(PairedCands) :
            \E i \in 1..Len(PairCities), j \in 1..Len(PairEvents) :
                /\ PairedCands[n].id = PairedId(PairCities[i], PairEvents[j])
                /\ PairEvents[j].positions # << >>
                /\ With(_make_event_positions_3tier(<< >>, PairDpp, PairEvents[j]).result,
                        LAMBDA event_positions :
                            CityMajor(PairedCands[n].positions, PairedCands[n].fallback_idx,
                                      PairCities[i].positions, event_positions))

\* one returned pair has its fallback behind pairs of the first city tier,
\* another has no pair of a later tier and falls back to 0
C21_Witness ==
    /\ Paired
    /\ \E n \in 1..Len(PairedCands) :
           /\ PairedCands[n].fallback_idx > 0
           /\ PairedCands[n].positions[PairedCands[n].fallback_idx + 1][1].bbox
                  # PairedCands[n].positions[1][1].bbox
    /\ \E n \in 1..Len(PairedCands) :
           /\ PairedCands[n].fallback_idx = 0
           /\ \A p \in 1..Len(PairedCands[n].positions) :
                  PairedCands[n].positions[p][1].bbox = PairedCands[n].positions[1][1].bbox

\* C26: after detect_and_pair the manager's store is the store before the
\* call, and the position variants of the input city and event candidates are
\* unchanged, group tags included.
C26_StoreAndInputsUnchanged ==
    Paired =>
        /\ elements = elements0
        /\ ret.city_candidates = PairCities
        /\ ret.event_candidates = PairEvents

\* a call on a non-empty store that generated event positions and returned a
\* pair whose copies carry the pair's group tag
C26_Witness ==
    /\ Paired
    /\ elements0 # << >>
    /\ \E n \in 1..Len(PairedCands) :
           /\ PairedCands[n].positions[1][1].group = PairedCands[n].id
           /\ \E i \in 1..Len(PairCities) :
                  /\ PairCities[i].id = CityOf(PairedCands[n]).id
                  /\ PairCities[i].positions # << >>
                  /\ PairCities[i].positions[1].group = NoGroup

\* the campaign attachments and the others, in registration order
Campaigns == SelectSeq(attachments, is_campaign)
Others == SelectSeq(attachments, LAMBDA a : ~ is_campaign(a))

\* the angles of the campaign attachments registered before the i-th one
TakenBefore(i) == {ResolvedAngle(Campaigns[j].index) : j \in 1..(i - 1)}

\* the multiples k * 360/n of the slot size that are nearest to an angle
NearestMultiples(angle, n) ==
    {c * (360 \div n) : c \in {c \in 0..(n + 1) :
        \A l \in 0..(n + 1) : Abs(c * (360 \div n) - angle) <= Abs(l * (360 \div n) - angle)}}

\* an angle reached from start by adding the slot size modulo 360 some times,
\* with every angle on the way taken
ReachedBySlots(start, angle, taken, n) ==
    \E m \in 0..n :
        LET at[x \in 0..m] == IF x = 0 THEN start ELSE (at[x - 1] + (360 \div n)) % 360
        IN  /\ at[m] = angle
            /\ \A x \in 0..(m - 1) : at[x] \in taken

\* the slots no campaign attachment was given, in ascending order
UnusedSlots ==
    sorted_set({c * (360 \div Len(attachments)) : c \in 0..(Len(attachments) - 1)}
                   \ TakenBefore(Len(Campaigns) + 1))

C27_SlotsNeverRunOut ==
    (_resolved /\ Len(attachments) >= 3) =>
        /\ Len(Others) <= Len(sorted_set(all_slots(Len(attachments))
                                           \ TakenBefore(Len(Campaigns) + 1)))
        /\ \A i \in 1..Len(Others) :
               /\ ResolvedAngle(Others[i].index) # ValueError
               /\ ResolvedAngle(Others[i].index)
                      \in all_slots(Len(attachments)) \ TakenBefore(Len(Campaigns) + 1)

\* campaigns and others mixed, and a circle without any campaign
C27_Witness ==
    /\ _resolved
    /\ Len(attachments) = MaxAttach
    /\ \/ Len(Campaigns) = 1 /\ Len(Others) = MaxAttach - 1
       \/ Len(Campaigns) = 0

\* C28: resolved with n >= 3 attachments whose preferred angles lie in
\* [0, 360), every angle lies in [0, 360) and is one of the slots k * 360/n,
\* 0 <= k < n.
C28_AnglesAreSlots ==
    (/\ _resolved
     /\ Len(attachments) >= 3
     /\ \A i \in 1..Len(attachments) : attachments[i].preferred_angle \in 0..359) =>
        \A i \in Registered :
            /\ ResolvedAngle(i) >= 0
            /\ ResolvedAngle(i) < 360
            /\ \E slot \in 0..(Len(attachments) - 1) :
                   ResolvedAngle(i) = slot * (360 \div Len(attachments))

\* the passes of the slot-advancing loop for the i-th campaign attachment
LoopOf(i) ==
    slot_loop(snap(Campaigns[i].preferred_angle, Len(attachments)), TakenBefore(i),
              Len(attachments), 0)

\* C29: for n >= 3 the slot-advancing loop of every campaign attachment exits
\* with an untaken angle after at most n passes.
C29_SlotLoopExits ==
    (_resolved /\ Len(attachments) >= 3) =>
        \A i \in 1..Len(Campaigns) :
            /\ LoopOf(i).exited
            /\ LoopOf(i).steps <= Len(attachments)

\* every attachment is a campaign with the same preferred angle, and the
\* loop of the last one passed more than once
C29_Witness ==
    /\ _resolved
    /\ Len(attachments) = MaxAttach
    /\ Len(Campaigns) = MaxAttach
    /\ \A i \in 1..Len(Campaigns) : Campaigns[i].preferred_angle = Campaigns[1].preferred_angle
    /\ LoopOf(MaxAttach).steps > 1

\* the elements in the store now that were not in it before the call
Added == Range(elements) \ Range(elements0)

\* every element stored before the call is stored now, as it was
PriorStoreKept == \A e \in Range(elements0) : e \in Range(elements)

\* C25 as stated: after resolve_greedy every element stored before is still
\* stored, unchanged, and the elements added are the committed variants of the
\* candidates, one stored element per candidate, for any candidates and any
\* prior store.
C25_OnlyAddsOnePerCandidate ==
    pc = "done_greedy" =>
        /\ PriorStoreKept
        /\ Len(elements) = Len(elements0) + Len(candidates)
        /\ \A i \in 1..Len(candidates) :
               /\ 0 <= candidates[i].resolved_idx
               /\ candidates[i].resolved_idx < Len(candidates[i].positions)
               /\ candidates[i].positions[candidates[i].resolved_idx + 1] \in Added

\* C25 amended: for candidates whose ids are pairwise distinct and are not ids
\* of stored elements, every element stored before is still stored, unchanged,
\* and the elements added are the committed variants of the candidates that
\* received one, one stored element for each of them; these are all the
\* candidates when the call returns.
C25_OnlyAddsOnePerFreshCandidate ==
    ( /\ pc = "done_greedy"
      /\ DistinctIds(candidates)
      /\ \A i \in 1..Len(candidates) : candidates[i].id \notin Keys(elements0) )
    =>  /\ PriorStoreKept
        /\ Added = {Chosen(j) : j \in Commits}
        /\ Len(elements) = Len(elements0) + Cardinality(Commits)
        /\ raised = "" => {hist[j].candidate : j \in Commits} = 1..Len(candidates)

\* a stored dot and two candidates with ids of their own, one placed on its
\* second variant and one committed by fallback
C25_Witness ==
    /\ pc = "done_greedy"
    /\ raised = ""
    /\ Len(elements0) = 1
    /\ Len(candidates) = 2
    /\ DistinctIds(candidates)
    /\ \A i \in 1..2 : candidates[i].id \notin Keys(elements0)
    /\ Len(elements) = 3
    /\ \E j \in 1..2 : hist[j].placed /\ HistCandidate(j).resolved_idx = 1
    /\ \E j \in 1..2 : ~ hist[j].placed

\* the campaigns have been rendered
Rendered == pc = "rendered"

\* the ranked segment a label of campaign c (from 1) was committed on
CommittedSegment(c, side) ==
    _get_label_candidates(ret[c].geometry)
        [Get(resolved, CampaignLabelId(ret[c].idx, side)).segment_idx + 1]

\* C30: a campaign with an above and a below label has each of them rendered
\* on the ranked segment resolve_greedy committed that label on, also when
\* the two were committed on different segments.
C30_EachLabelOnItsOwnSegment ==
    Rendered =>
        \A c \in 1..Len(ret) :
            (ret[c].label_above # << >> /\ ret[c].label_below # << >>) =>
                /\ ret[c].label_segment = CommittedSegment(c, "_above")
                /\ ret[c].label_segment = CommittedSegment(c, "_below")

\* the last geometry call and its arguments
GeometryCall == pc = "geometry" /\ probe[1] = "_get_multistop_geometry"
InfoCall == pc = "geometry" /\ probe[1] = "_compute_segment_info"
Waypoints == probe[2]

\* the legs between two different waypoints, by the index of their first one
DistinctLegs ==
    SelectSeq([i \in 1..(Len(Waypoints) - 1) |-> i],
              LAMBDA i : Waypoints[i] # Waypoints[i + 1])

\* C23: _get_multistop_geometry returns None for fewer than 2 waypoints and
\* when no leg has positive length, _compute_segment_info returns None for a
\* path of zero length; otherwise, for path_type 'segments', the result has one
\* segment for every consecutive pair of different waypoints, in path order,
\* each running from the one waypoint to the other with positive length, and
\* total_length is the sum of the segments' lengths.
C23_DegenerateIsNone ==
    /\ InfoCall =>
           (ret = << >>) = (\A i, j \in 1..Len(probe[2].pts) : probe[2].pts[i] = probe[2].pts[j])
    /\ GeometryCall =>
           /\ (Len(Waypoints) < 2 \/ DistinctLegs = << >>) => ret = << >>
           /\ (Len(Waypoints) >= 2 /\ DistinctLegs # << >>) => ret # << >>
           /\ (ret # << >> /\ probe[3] = "segments") =>
                  /\ Len(ret[1].segments) = Len(DistinctLegs)
                  /\ \A s \in 1..Len(DistinctLegs) :
                         LET seg == ret[1].segments[s]
                         IN  /\ seg.path.pts[1] = scale(Waypoints[DistinctLegs[s]], seg.path.den)
                             /\ seg.path.pts[Len(seg.path.pts)] =
                                    scale(Waypoints[DistinctLegs[s] + 1], seg.path.den)
                             /\ seg.length > 0
                  /\ ret[1].total_length =
                         np_sum([s \in 1..Len(ret[1].segments) |-> ret[1].segments[s].length])

\* three waypoints, the first given twice: one leg is dropped, one segment
\* is returned
C23_Witness ==
    /\ GeometryCall
    /\ probe[3] = "segments"
    /\ Len(Waypoints) = 3
    /\ Waypoints[1] = Waypoints[2]
    /\ Waypoints[2] # Waypoints[3]
    /\ ret # << >>
    /\ Len(ret[1].segments) = 1
    /\ ret[1].total_length > 0

\* the last segmentation call: its path and the elements it returned
Segmented == pc = "segmented"
SegPath == probe[3]

\* the box of the points lo..hi (from 0) of the path, padded on every side
RunBox(lo, hi, padding) ==
    LET lons == {SegPath[i + 1][1] : i \in lo..hi}
        lats == {SegPath[i + 1][2] : i \in lo..hi}
    IN  << MinOf(lons) - padding, MinOf(lats) - padding,
           MaxOf(lons) + padding, MaxOf(lats) + padding >>

\* the number of runs that start every `step` points and hold at least
\* `least` points
RunCount(step, least) ==
    Cardinality({m \in 0..Len(SegPath) : m * step + least <= Len(SegPath)})

C9_WouldOverlapExactAndPure ==
    (Len(probe) > 0 /\ probe[1] = "would_overlap") =>
        LET e == probe[2]
            expected == {f \in Range(elements0) :
                            ClosedIntervalTest(e.bbox, f.bbox) /\ ~ ShareGroup(e, f)}
        IN  /\ Range(ret) = expected
            /\ Len(ret) = Cardinality(expected)
            /\ elements = elements0

\* a probe against three stored elements: one reported, one exempt by group,
\* one that does not intersect
C9_Witness ==
    /\ Len(probe) > 0
    /\ probe[1] = "would_overlap"
    /\ Len(elements) = 3
    /\ Len(ret) = 1
    /\ \E f \in Range(elements) :
           ClosedIntervalTest(probe[2].bbox, f.bbox) /\ ShareGroup(probe[2], f)
    /\ \E f \in Range(elements) : ~ ClosedIntervalTest(probe[2].bbox, f.bbox)

\* C11: detect_overlaps returns pairs of distinct stored elements; each
\* unordered pair of stored elements is returned once if the two bboxes
\* intersect and the two do not share a non-empty group, and not at all
\* otherwise; a pair is returned exactly when one is in would_overlap of the
\* other.
C11_DetectOverlapsExact ==
    (Len(probe) > 0 /\ probe[1] = "detect_overlaps") =>
        /\ \A p \in 1..Len(ret) :
               /\ ret[p][1] \in Range(elements) /\ ret[p][2] \in Range(elements)
               /\ ret[p][1].id # ret[p][2].id
        /\ \A i, j \in 1..Len(elements) :
               i < j =>
                   LET e == elements[i]
                       f == elements[j]
                       hits == {p \in 1..Len(ret) : ret[p] \in {<<e, f>>, <<f, e>>}}
                       due == ClosedIntervalTest(e.bbox, f.bbox) /\ ~ ShareGroup(e, f)
                   IN  /\ Cardinality(hits) = IF due THEN 1 ELSE 0
                       /\ due <=> e \in Range(would_overlap(elements, f))
                       /\ due <=> f \in Range(would_overlap(elements, e))
        /\ elements = elements0

\* three stored elements: one pair reported, one intersecting pair exempt by
\* group, one pair that does not intersect
C11_Witness ==
    /\ Len(probe) > 0
    /\ probe[1] = "detect_overlaps"
    /\ Len(elements) = 3
    /\ Len(ret) = 1
    /\ \E e, f \in Range(elements) :
           e.id # f.id /\ ClosedIntervalTest(e.bbox, f.bbox) /\ ShareGroup(e, f)
    /\ \E e, f \in Range(elements) : ~ ClosedIntervalTest(e.bbox, f.bbox)

\* C10: _bbox_intersects(a, b) is the closed-interval overlap test on both
\* axes; it is symmetric, true for identical and contained boxes, and true for
\* boxes touching along an edge such as (0,0,1,1) and (1,0,2,1).
C10_BboxIntersectsClosed ==
    pc = "query" =>
        /\ ret = ClosedIntervalTest(b1, b2)
        /\ ret = _bbox_intersects(b2, b1)
        /\ (WellFormed(b1) /\ WellFormed(b2) /\ Contains(b1, b2)) => ret
        /\ (b1 = <<0, 0, 1, 1>> /\ b2 = <<1, 0, 2, 1>>) => ret

C10_Witness ==
    /\ pc = "query"
    /\ b1 = <<0, 0, 1, 1>>
    /\ b2 = <<1, 0, 2, 1>>
    /\ ret = TRUE

====
